---- MODULE Spec2Model ----
(***************************************************************************)
(* Udyam registration: schema store (backend/src/schemaLoader.ts), the     *)
(* validation engine (backend/src/validators.ts), the form routes and the  *)
(* multi-step form session of the frontend.                                *)
(*                                                                         *)
(* A JavaScript string is a sequence of one-character strings, so that     *)
(* replace, includes, toLowerCase, trim and the regular expressions of the *)
(* code are computed and not assumed.                                      *)
(***************************************************************************)
EXTENDS Integers, Sequences, FiniteSets, TLC

VARIABLES
    loadedSchema,   \* schemaLoader.ts: let loadedSchema
    loadOutcome,    \* outcome of the latest loadSchema call
    schemaBefore,   \* history: loadedSchema when the latest loadSchema call began
    lastLoaded,     \* history: document of the latest loadSchema call that resolved
    getOutcome      \* outcome of the latest getLoadedSchema call

storeVars == <<loadedSchema, loadOutcome, schemaBefore, lastLoaded, getOutcome>>

-----------------------------------------------------------------------------
\* F applied to the value of e, with e evaluated once (a local constant of the code)
Once(F(_), e) == CHOOSE r \in {F(x) : x \in {e}} : TRUE

-----------------------------------------------------------------------------
(* Characters and the string operations the code uses *)

DigitChars == {"0", "1", "2", "3", "4", "5", "6", "7", "8", "9"}

UpperSeq == <<"A", "B", "C", "D", "E", "F", "G", "H", "I", "J", "K", "L", "M",
      "N", "O", "P", "Q", "R", "S", "T", "U", "V", "W", "X", "Y", "Z">>

LowerSeq == <<"a", "b", "c", "d", "e", "f", "g", "h", "i", "j", "k", "l", "m",
      "n", "o", "p", "q", "r", "s", "t", "u", "v", "w", "x", "y", "z">>

UpperChars == {UpperSeq[i] : i \in 1..Len(UpperSeq)}

WhiteChars == {" ", "\t", "\n"}

LowerOf(c) ==
    IF c \in UpperChars
    THEN LowerSeq[CHOOSE i \in 1..Len(UpperSeq) : UpperSeq[i] = c]
    ELSE c

\* String.prototype.toLowerCase
ToLowerCase(s) == [i \in 1..Len(s) |-> LowerOf(s[i])]

\* String.prototype.indexOf: 0-based position of the first occurrence, or -1
IndexOf(s, sub) ==
    LET hits == {i \in 0..(Len(s) - Len(sub)) : SubSeq(s, i + 1, i + Len(sub)) = sub}
    IN  IF hits = {} THEN -1 ELSE CHOOSE i \in hits : \A j \in hits : i <= j

\* String.prototype.includes
Includes(s, sub) == IndexOf(s, sub) # -1

\* String.prototype.replace with a string pattern: the first occurrence only
Replace(s, pat, rep) ==
    LET i == IndexOf(s, pat)
    IN  IF i = -1 THEN s
        ELSE SubSeq(s, 1, i) \o rep \o SubSeq(s, i + Len(pat) + 1, Len(s))

\* a trim that takes one white-space character off each end
TrimOneAtEachEnd(s) ==
    SubSeq(s, IF s # <<>> /\ s[1] \in WhiteChars THEN 2 ELSE 1,
              IF s # <<>> /\ s[Len(s)] \in WhiteChars THEN Len(s) - 1 ELSE Len(s))

\* String.prototype.trim
Trim(s) ==
    LET keep == {i \in 1..Len(s) : s[i] \notin WhiteChars}
    IN  IF keep = {} THEN <<>>
        ELSE SubSeq(s, CHOOSE i \in keep : \A j \in keep : i <= j,
                       CHOOSE i \in keep : \A j \in keep : i >= j)

\* the string without its leading white space
TrimStart(s) ==
    LET keep == {i \in 1..Len(s) : s[i] \notin WhiteChars}
    IN  IF keep = {} THEN <<>>
        ELSE SubSeq(s, CHOOSE i \in keep : \A j \in keep : i <= j, Len(s))

\* s.replace(/\D/g, '')
StripNonDigits(s) == SelectSeq(s, LAMBDA c : c \in DigitChars)

AllIn(s, from, to, set) == \A i \in from..to : s[i] \in set

DigitOf(c) == CHOOSE d \in 0..9 : <<"0", "1", "2", "3", "4", "5", "6", "7", "8", "9">>[d + 1] = c

RECURSIVE DigitsValue(_)
DigitsValue(s) ==
    IF s = <<>> THEN 0
    ELSE 10 * DigitsValue(SubSeq(s, 1, Len(s) - 1)) + DigitOf(s[Len(s)])

\* parseInt(s, 10): leading white space skipped, the longest prefix of digits
\* read; NaN when there is none (signs do not occur in the length attributes)
ParseInt(s) ==
    LET body == TrimStart(s)
        digits == Cardinality({i \in 1..Len(body) : AllIn(body, 1, i, DigitChars)})
    IN  IF digits = 0 THEN [nan |-> TRUE, n |-> 0]
        ELSE [nan |-> FALSE, n |-> DigitsValue(SubSeq(body, 1, digits))]

-----------------------------------------------------------------------------
(* Names *)

ASPNET_PREFIX == <<"c", "t", "l", "0", "0", "$", "C", "o", "n", "t", "e", "n", "t", "P", "l", "a", "c", "e", "H", "o", "l", "d", "e", "r", "1", "$">>

\* the keys of a record in API names, and the keys of reports and rows
ApiKey ==
    [ enterpriseName |-> <<"e", "n", "t", "e", "r", "p", "r", "i", "s", "e", "N", "a", "m", "e">>,
      enterpriseType |-> <<"e", "n", "t", "e", "r", "p", "r", "i", "s", "e", "T", "y", "p", "e">>,
      aadhaarNumber |-> <<"a", "a", "d", "h", "a", "a", "r", "N", "u", "m", "b", "e", "r">>,
      panNumber |-> <<"p", "a", "n", "N", "u", "m", "b", "e", "r">>,
      panName |-> <<"p", "a", "n", "N", "a", "m", "e">>,
      dateOfBirth |-> <<"d", "a", "t", "e", "O", "f", "B", "i", "r", "t", "h">>,
      socialCategory |-> <<"s", "o", "c", "i", "a", "l", "C", "a", "t", "e", "g", "o", "r", "y">>,
      gender |-> <<"g", "e", "n", "d", "e", "r">>,
      physicallyHandicapped |-> <<"p", "h", "y", "s", "i", "c", "a", "l", "l", "y", "H", "a", "n", "d", "i", "c", "a", "p", "p", "e", "d">>,
      declaration |-> <<"d", "e", "c", "l", "a", "r", "a", "t", "i", "o", "n">>,
      officialAddress |-> <<"o", "f", "f", "i", "c", "i", "a", "l", "A", "d", "d", "r", "e", "s", "s">>,
      promoterDetails |-> <<"p", "r", "o", "m", "o", "t", "e", "r", "D", "e", "t", "a", "i", "l", "s">>,
      pinCode |-> <<"p", "i", "n", "C", "o", "d", "e">>,
      mobileNumber |-> <<"m", "o", "b", "i", "l", "e", "N", "u", "m", "b", "e", "r">>,
      emailId |-> <<"e", "m", "a", "i", "l", "I", "d">>,
      email |-> <<"e", "m", "a", "i", "l">>,
      state |-> <<"s", "t", "a", "t", "e">>,
      district |-> <<"d", "i", "s", "t", "r", "i", "c", "t">>,
      name |-> <<"n", "a", "m", "e">>,
      general |-> <<"g", "e", "n", "e", "r", "a", "l">>,
      _general |-> <<"_", "g", "e", "n", "e", "r", "a", "l">>,
      _submittedAt |-> <<"_", "s", "u", "b", "m", "i", "t", "t", "e", "d", "A", "t">>,
      _version |-> <<"_", "v", "e", "r", "s", "i", "o", "n">> ]

\* the names of the controls of the scraped form
Control ==
    [ txtownername |-> <<"t", "x", "t", "o", "w", "n", "e", "r", "n", "a", "m", "e">>,
      ddlTypeofOrg |-> <<"d", "d", "l", "T", "y", "p", "e", "o", "f", "O", "r", "g">>,
      txtadharno |-> <<"t", "x", "t", "a", "d", "h", "a", "r", "n", "o">>,
      txtPan |-> <<"t", "x", "t", "P", "a", "n">>,
      txtPanName |-> <<"t", "x", "t", "P", "a", "n", "N", "a", "m", "e">>,
      txtdob |-> <<"t", "x", "t", "d", "o", "b">>,
      ddlSocialCategory |-> <<"d", "d", "l", "S", "o", "c", "i", "a", "l", "C", "a", "t", "e", "g", "o", "r", "y">>,
      ddlGender |-> <<"d", "d", "l", "G", "e", "n", "d", "e", "r">>,
      chkPhysicallyHandicapped |-> <<"c", "h", "k", "P", "h", "y", "s", "i", "c", "a", "l", "l", "y", "H", "a", "n", "d", "i", "c", "a", "p", "p", "e", "d">>,
      chkDecarationP |-> <<"c", "h", "k", "D", "e", "c", "a", "r", "a", "t", "i", "o", "n", "P">>,
      chkDecarationA |-> <<"c", "h", "k", "D", "e", "c", "a", "r", "a", "t", "i", "o", "n", "A">>,
      btnValidateAadhaar |-> <<"b", "t", "n", "V", "a", "l", "i", "d", "a", "t", "e", "A", "a", "d", "h", "a", "a", "r">>,
      btnValidatePan |-> <<"b", "t", "n", "V", "a", "l", "i", "d", "a", "t", "e", "P", "a", "n">>,
      NA |-> <<"N", "/", "A">> ]

\* the names the form gives to its fields (services/api.ts: friendlyNames)
FormKey ==
    [ entrepreneurName |-> <<"e", "n", "t", "r", "e", "p", "r", "e", "n", "e", "u", "r", "N", "a", "m", "e">>,
      organizationType |-> <<"o", "r", "g", "a", "n", "i", "z", "a", "t", "i", "o", "n", "T", "y", "p", "e">>,
      panHolderName |-> <<"p", "a", "n", "H", "o", "l", "d", "e", "r", "N", "a", "m", "e">>,
      aadhaarConsent |-> <<"a", "a", "d", "h", "a", "a", "r", "C", "o", "n", "s", "e", "n", "t">>,
      panConsent |-> <<"p", "a", "n", "C", "o", "n", "s", "e", "n", "t">>,
      validateAadhaar |-> <<"v", "a", "l", "i", "d", "a", "t", "e", "A", "a", "d", "h", "a", "a", "r">>,
      validatePan |-> <<"v", "a", "l", "i", "d", "a", "t", "e", "P", "a", "n">> ]

\* the raw name of a control as the scraped form carries it
Raw(short) == ASPNET_PREFIX \o short

-----------------------------------------------------------------------------
(* JavaScript values *)

JUndefined == [t |-> "undefined"]
JNull == [t |-> "null"]
JBool(b) == [t |-> "boolean", b |-> b]
JStr(s) == [t |-> "string", s |-> s]
JObj(o) == [t |-> "object", o |-> o]
JArr(a) == [t |-> "array", a |-> a]

\* the empty values the validators test for: undefined, null and ''
IsEmptyValue(v) == v = JUndefined \/ v = JNull \/ v = JStr(<<>>)

-----------------------------------------------------------------------------
(* Schema documents (schemaLoader.ts: SchemaField, SchemaStep, UdyamSchema) *)

\* a control of the scraped form; maxlength, minlength and pattern are the
\* attribute strings, options the values of a select's options
SchemaField(fname, ftype, ftag, flabel) ==
    [name |-> fname, type |-> ftype, tag |-> ftag, label |-> flabel,
     required |-> FALSE, aria_required |-> <<>>, pattern |-> "",
     maxlength |-> <<>>, minlength |-> <<>>, options |-> <<>>, visible |-> TRUE]

SchemaStep(sid, stitle, sfields) ==
    [t |-> "object", id |-> sid, title |-> stitle, fields |-> sfields,
     field_count |-> Len(sfields)]

UdyamSchema(stamp, ssteps) ==
    [t |-> "object", url |-> "https://udyamregistration.gov.in/UdyamRegistration.aspx",
     scraped_at |-> stamp, steps |-> ssteps]

\* the two regular expressions a schema document carries in the model, an
\* invalid one, and a blank one
AadhaarPattern == "^[0-9]{12}$"
PanPattern == "[A-Za-z]{5}[0-9]{4}[A-Za-z]{1}"
BrokenPattern == "[0-9"
BlankPattern == " "

f_aadhaar == [SchemaField(Raw(Control.txtadharno), "text", "input", "1. Aadhaar Number")
                 EXCEPT !.maxlength = <<"1", "2">>]
f_owner == [SchemaField(Raw(Control.txtownername), "text", "input", "2. Name of Entrepreneur")
                 EXCEPT !.maxlength = <<"1", "0", "0">>]
f_declA == SchemaField(Raw(Control.chkDecarationA), "checkbox", "input", "GSTIN")
f_btnAadhaar == SchemaField(Raw(Control.btnValidateAadhaar), "submit", "input", "1. Aadhaar Number")
f_button == SchemaField(Control.NA, "button", "button", "")
f_typeOfOrg == [SchemaField(Raw(Control.ddlTypeofOrg), "", "select", "3. Type of Organisation")
                 EXCEPT !.options = << <<"0">>, <<"1">>, <<"2">>, <<"3">> >>]
f_pan == [SchemaField(Raw(Control.txtPan), "text", "input", "4.1 PAN")
                 EXCEPT !.maxlength = <<"1", "0">>]
f_panName == [SchemaField(Raw(Control.txtPanName), "text", "input", "4.1.1 Name of PAN Holder")
                 EXCEPT !.maxlength = <<"1", "0", "0">>]
f_dob == SchemaField(Raw(Control.txtdob), "text", "input", "4.1.2 DOB or DOI as per PAN")
f_declP == SchemaField(Raw(Control.chkDecarationP), "checkbox", "input", "3. Type of Organisation")
f_btnPan == SchemaField(Raw(Control.btnValidatePan), "submit", "input", "3. Type of Organisation")

\* the scraped form: an Aadhaar page and a PAN page, no field required, no
\* pattern, the identity fields repeated on the second page
ScrapedDoc ==
    UdyamSchema("2025-08-12 22:25:16",
        JArr(<< SchemaStep(1, "Initial Aadhaar Verification Page",
                    <<f_aadhaar, f_owner, f_declA, f_btnAadhaar, f_button>>),
                SchemaStep(2, "PAN Verification & Business Details Page",
                    <<f_aadhaar, f_owner, f_declA, f_typeOfOrg, f_pan, f_panName,
                      f_dob, f_declP, f_btnPan, f_button>>) >>))

\* a document whose fields carry required flags, patterns and length limits
StrictDoc ==
    UdyamSchema("2025-09-01 10:00:00",
        JArr(<< SchemaStep(1, "Aadhaar",
                    << [f_aadhaar EXCEPT !.required = TRUE, !.pattern = AadhaarPattern,
                                         !.minlength = <<"1", "2">>],
                       [f_owner EXCEPT !.aria_required = <<"t", "r", "u", "e">>,
                                       !.maxlength = <<"x">>],
                       [f_declA EXCEPT !.required = TRUE] >>),
                SchemaStep(2, "PAN",
                    << [f_typeOfOrg EXCEPT !.type = "select"],
                       [f_pan EXCEPT !.required = TRUE, !.pattern = PanPattern],
                       [f_panName EXCEPT !.pattern = BrokenPattern],
                       [f_dob EXCEPT !.pattern = BlankPattern],
                       [f_declP EXCEPT !.required = TRUE] >>) >>))

\* a document none of whose controls has a name the validators look up
BareDoc ==
    UdyamSchema("2025-09-02 10:00:00",
        JArr(<< SchemaStep(1, "Buttons", <<f_button>>) >>))

\* structurally odd documents: no step at all, and a null in place of a step
EmptyStepsDoc == UdyamSchema("2025-09-03 10:00:00", JArr(<<>>))
NullStepDoc == UdyamSchema("2025-09-04 10:00:00", JArr(<<JNull>>))

\* what may stand at the schema path: nothing, text that is not JSON, or JSON
NoFile == [exists |-> FALSE]
BadJsonFile == [exists |-> TRUE, wellFormed |-> FALSE]
JsonFile(v) == [exists |-> TRUE, wellFormed |-> TRUE, json |-> v]

SchemaFiles ==
    { NoFile, BadJsonFile, JsonFile(JNull),
      JsonFile([t |-> "object", url |-> "u", scraped_at |-> "s", steps |-> JUndefined]),
      JsonFile([t |-> "object", url |-> "u", scraped_at |-> "s", steps |-> JStr(<<"x">>)]),
      JsonFile(ScrapedDoc), JsonFile(StrictDoc), JsonFile(BareDoc),
      JsonFile(EmptyStepsDoc), JsonFile(NullStepDoc) }

-----------------------------------------------------------------------------
(* Schema store (schemaLoader.ts) *)

IsFalsy(v) ==
    \/ v \in {JUndefined, JNull, JStr(<<>>)}
    \/ v = JBool(FALSE)

\* schema.steps.reduce((sum, step) => sum + step.field_count, 0) raises a
\* TypeError when a step is null
ReduceThrows(ssteps) == \E i \in 1..Len(ssteps.a) : ssteps.a[i] = JNull

\* loadSchema run on the file at the path while `before` is the active
\* document: [threw, schema (the store after the call), value (returned)]
LoadSchemaRun(file, before) ==
    IF ~file.exists
        THEN [threw |-> TRUE, schema |-> before, error |-> "Schema file not found"]
    ELSE IF ~file.wellFormed
        THEN [threw |-> TRUE, schema |-> before, error |-> "SyntaxError"]
    ELSE IF file.json = JNull
        THEN [threw |-> TRUE, schema |-> before, error |-> "TypeError"]
    ELSE IF IsFalsy(file.json.steps) \/ file.json.steps.t # "array"
        THEN [threw |-> TRUE, schema |-> before,
              error |-> "Invalid schema: missing or invalid steps array"]
    ELSE IF ReduceThrows(file.json.steps)
        \* line 82 has stored the document before line 84 throws
        THEN [threw |-> TRUE, schema |-> file.json, error |-> "TypeError"]
    ELSE [threw |-> FALSE, schema |-> file.json, value |-> file.json]

\* getLoadedSchema on the store
GetLoadedSchemaRun(schema) ==
    IF schema = JNull
    THEN [threw |-> TRUE, error |-> "Schema not loaded. Call loadSchema() first."]
    ELSE [threw |-> FALSE, value |-> schema]

NoCall == [threw |-> FALSE, none |-> TRUE]

\* a loadSchema call on a path that holds one of the files
LoadSchemaFrom(files) ==
    /\ \E file \in files :
        \E r \in {LoadSchemaRun(file, loadedSchema)} :
            /\ loadedSchema' = r.schema
            /\ loadOutcome' = r
            /\ schemaBefore' = loadedSchema
            /\ lastLoaded' = IF r.threw THEN lastLoaded ELSE r.value
    /\ getOutcome' = NoCall

LoadSchema == LoadSchemaFrom(SchemaFiles)

GetLoadedSchema ==
    /\ getOutcome' = GetLoadedSchemaRun(loadedSchema)
    /\ UNCHANGED <<loadedSchema, loadOutcome, schemaBefore, lastLoaded>>

StoreInit ==
    /\ loadedSchema = JNull
    /\ loadOutcome = NoCall
    /\ schemaBefore = JNull
    /\ lastLoaded = JNull
    /\ getOutcome = NoCall

-----------------------------------------------------------------------------
(* Field lookup and rule extraction (schemaLoader.ts) *)

\* getAllFields raises when no schema is loaded (getLoadedSchema) and when a
\* step is null (step.fields inside flatMap)
GetAllFieldsThrows(schema) ==
    \/ GetLoadedSchemaRun(schema).threw
    \/ \E i \in 1..Len(schema.steps.a) : schema.steps.a[i] = JNull

RECURSIVE FlatMapFields(_)
FlatMapFields(ssteps) ==
    IF ssteps = <<>> THEN <<>>
    ELSE Head(ssteps).fields \o FlatMapFields(Tail(ssteps))

GetAllFields(schema) == FlatMapFields(schema.steps.a)

NoField == [found |-> FALSE]

\* getFieldByName: the first field, in document order, whose name or whose
\* name without the ASP.NET prefix is fieldName
FindField(all, fieldName) ==
    LET hits == {i \in 1..Len(all) :
                    \/ all[i].name = fieldName
                    \/ Once(LAMBDA n : Replace(n, ASPNET_PREFIX, <<>>), all[i].name) = fieldName}
    IN  IF hits = {} THEN NoField
        ELSE [found |-> TRUE, field |-> all[CHOOSE i \in hits : \A j \in hits : i <= j]]

GetFieldByName(schema, fieldName) ==
    Once(LAMBDA all : FindField(all, fieldName), GetAllFields(schema))

\* field.pattern.trim() for the patterns of the model
PatternTrim(p) == IF p = BlankPattern THEN "" ELSE p

NoLength == [has |-> FALSE, n |-> 0]

LengthRule(attr) ==
    IF attr # <<>> /\ Trim(attr) # <<>>
    THEN Once(LAMBDA parsed : IF parsed.nan THEN NoLength ELSE [has |-> TRUE, n |-> parsed.n],
              ParseInt(attr))
    ELSE NoLength

\* getFieldValidationRules, for a field that getFieldByName found
GetFieldValidationRules(field) ==
    [required |-> field.required \/ field.aria_required = <<"t", "r", "u", "e">>,
     type |-> IF field.type # "" THEN field.type ELSE field.tag,
     pattern |-> IF field.pattern # "" /\ PatternTrim(field.pattern) # ""
                 THEN field.pattern ELSE "",
     maxlength |-> LengthRule(field.maxlength),
     minlength |-> LengthRule(field.minlength),
     options |-> field.options]

-----------------------------------------------------------------------------
(* Values the validators compare with *)

\* the string values of the records and the values the validators list
Val ==
    [ JohnDoe |-> <<"J", "o", "h", "n", " ", "D", "o", "e">>,
      Service |-> <<"S", "e", "r", "v", "i", "c", "e">>,
      Manufacturing |-> <<"M", "a", "n", "u", "f", "a", "c", "t", "u", "r", "i", "n", "g">>,
      Trading |-> <<"T", "r", "a", "d", "i", "n", "g">>,
      General |-> <<"G", "e", "n", "e", "r", "a", "l">>,
      SC |-> <<"S", "C">>,
      ST |-> <<"S", "T">>,
      OBC |-> <<"O", "B", "C">>,
      Male |-> <<"M", "a", "l", "e">>,
      Female |-> <<"F", "e", "m", "a", "l", "e">>,
      Other |-> <<"O", "t", "h", "e", "r">>,
      aadhaarOk |-> <<"5", "3", "9", "1", "4", "6", "1", "8", "4", "3", "3", "3">>,
      aadhaarShort |-> <<"1", "2", "3", "4", "5">>,
      aadhaarLetter |-> <<"5", "3", "9", "1", "4", "6", "1", "8", "4", "3", "3", "A">>,
      panOk |-> <<"A", "B", "C", "D", "E", "1", "2", "3", "4", "F">>,
      panLower |-> <<"a", "b", "c", "d", "e", "1", "2", "3", "4", "f">>,
      panShort |-> <<"A", "B", "C", "D", "1", "2", "3", "4", "F">>,
      true |-> <<"t", "r", "u", "e">>,
      false |-> <<"f", "a", "l", "s", "e">>,
      null |-> <<"n", "u", "l", "l">>,
      undefined |-> <<"u", "n", "d", "e", "f", "i", "n", "e", "d">>,
      objectObject |-> <<"[", "o", "b", "j", "e", "c", "t", " ", "O", "b", "j", "e", "c", "t", "]">>,
      pinOk |-> <<"1", "1", "0", "0", "0", "1">>,
      pinBad |-> <<"1", "2">>,
      mobileOk |-> <<"9", "9", "9", "9", "9", "9", "9", "9", "9", "9">>,
      emailOk |-> <<"t", "e", "s", "t", "@", "e", "x", "a", "m", "p", "l", "e", ".", "c", "o", "m">>,
      Delhi |-> <<"D", "e", "l", "h", "i">>,
      NewDelhi |-> <<"N", "e", "w", " ", "D", "e", "l", "h", "i">>,
      TestEntrepreneur |-> <<"T", "e", "s", "t", " ", "E", "n", "t", "r", "e", "p", "r", "e", "n", "e", "u", "r">> ]

\* the substrings the code looks for in names
Sub ==
    [ pan |-> <<"p", "a", "n">>,
      aadhaar |-> <<"a", "a", "d", "h", "a", "a", "r">>,
      adhar |-> <<"a", "d", "h", "a", "r">>,
      mobile |-> <<"m", "o", "b", "i", "l", "e">>,
      phone |-> <<"p", "h", "o", "n", "e">>,
      prototype |-> <<"p", "r", "o", "t", "o", "t", "y", "p", "e">>,
      uwaw |-> <<"u", "w", "a", "w">>,
      accessibility |-> <<"a", "c", "c", "e", "s", "s", "i", "b", "i", "l", "i", "t", "y">> ]

-----------------------------------------------------------------------------
(* Conversions and regular expressions of validators.ts *)

\* String(value)
StringOf(v) ==
    CASE v.t = "string" -> v.s
      [] v.t = "boolean" -> IF v.b THEN Val.true ELSE Val.false
      [] v.t = "null" -> Val.null
      [] v.t = "undefined" -> Val.undefined
      [] OTHER -> Val.objectObject

\* isNaN(Number(value)): a string is a number when, trimmed, it is empty or
\* all digits (the only numeric shapes among the values of the model)
NumberIsNaN(v) ==
    CASE v.t = "string" -> \E i \in 1..Len(Trim(v.s)) : Trim(v.s)[i] \notin DigitChars
      [] v.t = "boolean" -> FALSE
      [] v.t = "null" -> FALSE
      [] OTHER -> TRUE

\* /^\d{12}$/
TestAadhaar(s) == Len(s) = 12 /\ AllIn(s, 1, 12, DigitChars)

\* /^[A-Z]{5}\d{4}[A-Z]{1}$/
TestPan(s) ==
    /\ Len(s) = 10
    /\ AllIn(s, 1, 5, UpperChars)
    /\ AllIn(s, 6, 9, DigitChars)
    /\ s[10] \in UpperChars

\* /^\d{6}$/
TestPinCode(s) == Len(s) = 6 /\ AllIn(s, 1, 6, DigitChars)

\* /^[6-9]\d{9}$/
TestMobile(s) ==
    /\ Len(s) = 10
    /\ s[1] \in {"6", "7", "8", "9"}
    /\ AllIn(s, 2, 10, DigitChars)

\* /^[^\s@]+@[^\s@]+\.[^\s@]+$/
TestEmail(s) ==
    \E i \in 2..Len(s) : \E j \in (i + 2)..(Len(s) - 1) :
        /\ s[i] = "@"
        /\ s[j] = "."
        /\ \A n \in (1..Len(s)) \ {i} : s[n] \notin (WhiteChars \cup {"@"})

\* new RegExp(pattern) raises a SyntaxError for a malformed pattern
RegExpThrows(pattern) == pattern = BrokenPattern

\* new RegExp(pattern).test(s) for the patterns of the model; PanPattern is
\* not anchored, so it matches anywhere in s, and BlankPattern matches a space
RegExpTest(pattern, s) ==
    CASE pattern = AadhaarPattern -> TestAadhaar(s)
      [] pattern = BlankPattern -> \E i \in 1..Len(s) : s[i] = " "
      [] pattern = PanPattern ->
            \E i \in 0..(Len(s) - 10) :
                LET w == ToLowerCase(SubSeq(s, i + 1, i + 10))
                    low == {LowerSeq[n] : n \in 1..Len(LowerSeq)}
                IN  AllIn(w, 1, 5, low) /\ AllIn(w, 6, 9, DigitChars) /\ w[10] \in low
      [] OTHER -> FALSE

-----------------------------------------------------------------------------
(* Validation engine (validators.ts) *)

\* An error message is its template and the text put into it; a nested
\* message is the set of 'parent.child: message' parts that are joined.
NoError == [tpl |-> "null"]
Msg(tpl, arg) == [tpl |-> tpl, arg |-> arg]
NestedMsg(parts) == [tpl |-> "nested", parts |-> parts]

FIELD_MAPPING ==
    ApiKey.enterpriseName :> Control.txtownername @@
    ApiKey.enterpriseType :> Control.ddlTypeofOrg @@
    ApiKey.aadhaarNumber :> Control.txtadharno @@
    ApiKey.panNumber :> Control.txtPan @@
    ApiKey.panName :> Control.txtPanName @@
    ApiKey.dateOfBirth :> Control.txtdob @@
    ApiKey.socialCategory :> Control.ddlSocialCategory @@
    ApiKey.gender :> Control.ddlGender @@
    ApiKey.physicallyHandicapped :> Control.chkPhysicallyHandicapped @@
    ApiKey.declaration :> Control.chkDecarationP

GetSchemaFieldName(apiFieldName) ==
    IF apiFieldName \in DOMAIN FIELD_MAPPING THEN FIELD_MAPPING[apiFieldName]
    ELSE apiFieldName

\* validateBasicField, line 52
BasicRequiredFields ==
    {ApiKey.enterpriseName, ApiKey.enterpriseType, ApiKey.socialCategory, ApiKey.gender,
     ApiKey.declaration, ApiKey.aadhaarNumber, ApiKey.panNumber}

\* the switch of validateBasicField: the message of the case that fails
BasicSwitch(fieldName, value) ==
    LET stringValue == StringOf(value)
    IN  CASE fieldName = ApiKey.enterpriseType /\ stringValue \notin {Val.Manufacturing, Val.Service, Val.Trading}
                -> Msg("Enterprise type must be one of: Manufacturing, Service, Trading", <<>>)
          [] fieldName = ApiKey.socialCategory /\ stringValue \notin {Val.General, Val.SC, Val.ST, Val.OBC}
                -> Msg("Social category must be one of: General, SC, ST, OBC", <<>>)
          [] fieldName = ApiKey.gender /\ stringValue \notin {Val.Male, Val.Female, Val.Other}
                -> Msg("Gender must be one of: Male, Female, Other", <<>>)
          [] fieldName = ApiKey.declaration /\ value # JBool(TRUE)
                -> Msg("Declaration must be accepted (true)", <<>>)
          [] fieldName = ApiKey.aadhaarNumber /\ ~TestAadhaar(stringValue)
                -> Msg("Aadhaar number must be exactly 12 digits", <<>>)
          [] fieldName = ApiKey.panNumber /\ ~TestPan(stringValue)
                -> Msg("PAN must be in format: ABCDE1234F (5 letters, 4 digits, 1 letter)", <<>>)
          [] fieldName = ApiKey.pinCode /\ ~TestPinCode(stringValue)
                -> Msg("Pin code must be exactly 6 digits", <<>>)
          [] fieldName = ApiKey.mobileNumber /\ ~TestMobile(StripNonDigits(stringValue))
                -> Msg("Mobile number must be a valid 10-digit number", <<>>)
          [] fieldName \in {ApiKey.emailId, ApiKey.email} /\ ~TestEmail(stringValue)
                -> Msg("Email must be a valid email address", <<>>)
          [] fieldName = ApiKey.physicallyHandicapped /\ value.t # "boolean"
                -> Msg("Physically handicapped must be a boolean value", <<>>)
          [] OTHER -> NoError

\* validateBasicField and validateNestedObject, which call each other
RECURSIVE ValidateBasicField(_, _)
ValidateNestedObject(objectName, obj) ==
    LET bad == {key \in DOMAIN obj : ValidateBasicField(key, obj[key]) # NoError}
    IN  IF bad = {} THEN NoError
        ELSE NestedMsg({[field |-> objectName \o <<".">> \o key,
                         error |-> ValidateBasicField(key, obj[key])] : key \in bad})

ValidateBasicField(fieldName, value) ==
    IF fieldName \in BasicRequiredFields /\ IsEmptyValue(value)
        THEN Msg("${fieldName} is required", fieldName)
    ELSE IF BasicSwitch(fieldName, value) # NoError
        THEN BasicSwitch(fieldName, value)
    ELSE IF value.t = "object"
        THEN ValidateNestedObject(fieldName, value.o)
    ELSE NoError

\* a type check whose checkbox case takes booleans only
TypeCheckBooleansOnly(fieldName, rules, value) ==
    CASE rules.type \in {"text", "email", "tel"} /\ value.t # "string"
            -> Msg("${fieldName} must be a string", fieldName)
      [] rules.type = "number" /\ NumberIsNaN(value)
            -> Msg("${fieldName} must be a valid number", fieldName)
      [] rules.type = "checkbox" /\ value.t # "boolean"
            -> Msg("${fieldName} must be a boolean value", fieldName)
      [] rules.type = "select" /\ rules.options # <<>>
                               /\ \A i \in 1..Len(rules.options) : rules.options[i] # StringOf(value)
            -> Msg("${fieldName} must be one of: ${validValues}", fieldName)
      [] OTHER -> NoError

\* the type check of validateField, lines 196-225
TypeCheck(fieldName, rules, value) ==
    CASE rules.type \in {"text", "email", "tel"} /\ value.t # "string"
            -> Msg("${fieldName} must be a string", fieldName)
      [] rules.type = "number" /\ NumberIsNaN(value)
            -> Msg("${fieldName} must be a valid number", fieldName)
      [] rules.type = "checkbox" /\ value.t # "boolean"
                                 /\ value \notin {JStr(Val.true), JStr(Val.false)}
            -> Msg("${fieldName} must be a boolean value", fieldName)
      [] rules.type = "select" /\ rules.options # <<>>
                               /\ \A i \in 1..Len(rules.options) : rules.options[i] # StringOf(value)
            -> Msg("${fieldName} must be one of: ${validValues}", fieldName)
      [] OTHER -> NoError

\* the pattern check of validateField, lines 228-244
PatternCheck(fieldName, rules, stringValue) ==
    IF rules.pattern = "" \/ stringValue = <<>> \/ RegExpThrows(rules.pattern)
        THEN NoError
    ELSE IF RegExpTest(rules.pattern, stringValue)
        THEN NoError
    ELSE IF Includes(ToLowerCase(fieldName), Sub.pan)
        THEN Msg("PAN must be in format: ABCDE1234F (5 letters, 4 digits, 1 letter)", <<>>)
    ELSE IF Includes(ToLowerCase(fieldName), Sub.aadhaar) \/ Includes(ToLowerCase(fieldName), Sub.adhar)
        THEN Msg("Aadhaar number must be 12 digits", <<>>)
    ELSE Msg("${fieldName} format is invalid", fieldName)

\* field.label || fieldName
LabelOr(field, fieldName) == IF field.label # "" THEN <<field.label>> ELSE fieldName

\* the checks of validateField that follow the pattern check, lines 247-268
LengthAndKindCheck(fieldName, field, rules, stringValue) ==
    IF rules.maxlength.has /\ rules.maxlength.n # 0 /\ Len(stringValue) > rules.maxlength.n
        THEN Msg("${label} must not exceed ${maxlength} characters", LabelOr(field, fieldName))
    ELSE IF rules.minlength.has /\ rules.minlength.n # 0 /\ Len(stringValue) < rules.minlength.n
        THEN Msg("${label} must be at least ${minlength} characters", LabelOr(field, fieldName))
    ELSE IF Includes(ToLowerCase(fieldName), ApiKey.email) /\ ~TestEmail(stringValue)
        THEN Msg("${label} must be a valid email address", LabelOr(field, fieldName))
    ELSE IF /\ Includes(ToLowerCase(fieldName), Sub.mobile) \/ Includes(ToLowerCase(fieldName), Sub.phone)
            /\ ~TestMobile(StripNonDigits(stringValue))
        THEN Msg("${label} must be a valid 10-digit mobile number", LabelOr(field, fieldName))
    ELSE NoError

\* validateField from line 180 on, for a key whose field the schema has
CheckAgainstRules(fieldName, field, rules, value) ==
    LET stringValue == StringOf(value)
    IN  IF rules.required /\ IsEmptyValue(value)
            THEN Msg("${fieldName} is required", fieldName)
        ELSE IF ~rules.required /\ IsEmptyValue(value)
            THEN NoError
        ELSE IF TypeCheck(fieldName, rules, value) # NoError
            THEN TypeCheck(fieldName, rules, value)
        ELSE IF PatternCheck(fieldName, rules, stringValue) # NoError
            THEN PatternCheck(fieldName, rules, stringValue)
        ELSE LengthAndKindCheck(fieldName, field, rules, stringValue)

ValidateSchemaField(fieldName, field, value) ==
    Once(LAMBDA rules : CheckAgainstRules(fieldName, field, rules, value),
         GetFieldValidationRules(field))

\* a validateField whose lookup answers "no such field" instead of raising
\* when the store cannot be read
ValidateFieldWithoutLookupRaise(schema, fieldName, value) ==
    IF GetAllFieldsThrows(schema)
        THEN ValidateBasicField(fieldName, value)
    ELSE Once(LAMBDA hit : IF ~hit.found THEN ValidateBasicField(fieldName, value)
                           ELSE ValidateSchemaField(fieldName, hit.field, value),
              GetFieldByName(schema, GetSchemaFieldName(fieldName)))

\* validateField: the lookup raises (no schema, a null step) and the catch
\* answers; otherwise the schema's field decides, or the basic rules
ValidateField(schema, fieldName, value) ==
    IF GetAllFieldsThrows(schema)
        THEN Msg("Validation failed for ${fieldName}", fieldName)
    ELSE Once(LAMBDA hit : IF ~hit.found THEN ValidateBasicField(fieldName, value)
                           ELSE ValidateSchemaField(fieldName, hit.field, value),
              GetFieldByName(schema, GetSchemaFieldName(fieldName)))

\* whether an exception is raised while validateField checks the key: the
\* lookup raises, or the checks reach new RegExp(rules.pattern) with a
\* malformed pattern (lines 228-230)
ValidateFieldRaises(schema, fieldName, value) ==
    IF GetAllFieldsThrows(schema) THEN TRUE
    ELSE Once(LAMBDA hit :
                /\ hit.found
                /\ Once(LAMBDA rules :
                            /\ ~IsEmptyValue(value)
                            /\ TypeCheck(fieldName, rules, value) = NoError
                            /\ rules.pattern # ""
                            /\ StringOf(value) # <<>>
                            /\ RegExpThrows(rules.pattern),
                        GetFieldValidationRules(hit.field)),
              GetFieldByName(schema, GetSchemaFieldName(fieldName)))

\* JavaScript truthiness of the values of the model
Truthy(v) == ~IsFalsy(v)

\* obj[key] for any value: undefined unless obj is an object that has the key
GetProp(obj, key) ==
    IF obj.t = "object" /\ key \in DOMAIN obj.o THEN obj.o[key] ELSE JUndefined

\* data[key] of a record
DataProp(data, key) == IF key \in DOMAIN data THEN data[key] ELSE JUndefined

\* the list of line 294 with one name forgotten
RequiredFieldsWithoutGender ==
    {ApiKey.enterpriseName, ApiKey.enterpriseType, ApiKey.socialCategory, ApiKey.declaration}

\* validateSubmission, line 294
RequiredFields ==
    {ApiKey.enterpriseName, ApiKey.enterpriseType, ApiKey.socialCategory, ApiKey.gender, ApiKey.declaration}

RequiredAddressFields == {ApiKey.state, ApiKey.district, ApiKey.pinCode, ApiKey.mobileNumber, ApiKey.emailId}

RequiredPromoterFields == {ApiKey.name, ApiKey.mobileNumber, ApiKey.emailId}

\* the errors of the per-field loop, lines 286-291
FieldErrors(schema, data) ==
    Once(LAMBDA error : [fieldName \in {k \in DOMAIN data : error[k] # NoError} |-> error[fieldName]],
         [fieldName \in DOMAIN data |-> ValidateField(schema, fieldName, data[fieldName])])

\* the errors of the missing-key loop, lines 298-302
MissingErrors(data) ==
    [fieldName \in {k \in RequiredFields : k \notin DOMAIN data}
        |-> Msg("${fieldName} is required", fieldName)]

\* the errors of a required nested object, lines 305-327
NestedRequiredErrors(data, objectName, requiredInner, innerTpl, absentTpl) ==
    LET obj == DataProp(data, objectName)
    IN  IF Truthy(obj)
        THEN [key \in {objectName \o <<".">> \o f : f \in {g \in requiredInner : ~Truthy(GetProp(obj, g))}}
                |-> Msg(innerTpl, SubSeq(key, Len(objectName) + 2, Len(key)))]
        ELSE objectName :> Msg(absentTpl, <<>>)

\* a catch block that answers with the errors collected so far
CatchReportWithoutGeneralEntry == [success |-> FALSE, errors |-> <<>>]

\* the report of the catch block of validateSubmission
CatchReport ==
    [success |-> FALSE,
     errors |-> ApiKey._general :> Msg("Validation failed due to internal error", <<>>)]

\* validateSubmission: the assignments to errors in the order the code makes
\* them (a later one replaces an earlier one under the same key); a caller
\* that passes null makes Object.entries raise inside the try block, any
\* other argument is a record, data.o
ValidateSubmission(schema, data) ==
    IF data = JNull
    THEN CatchReport
    ELSE LET errors ==
                NestedRequiredErrors(data.o, ApiKey.promoterDetails, RequiredPromoterFields,
                    "${field} is required in promoter details", "Promoter details are required")
                @@ NestedRequiredErrors(data.o, ApiKey.officialAddress, RequiredAddressFields,
                    "${field} is required in official address", "Official address is required")
                @@ MissingErrors(data.o)
                @@ FieldErrors(schema, data.o)
         IN  [success |-> Cardinality(DOMAIN errors) = 0, errors |-> errors]

\* sanitizeSubmissionData: keys with a reserved marker dropped, top-level
\* strings trimmed, the metadata stamped

StartsWith(s, pre) == Len(s) >= Len(pre) /\ SubSeq(s, 1, Len(pre)) = pre

SanitizeSubmissionData(data, time) ==
    LET kept == {key \in DOMAIN data :
                    ~(StartsWith(key, <<"_", "_">>) \/ Includes(key, Sub.prototype))}
    IN  (ApiKey._submittedAt :> [t |-> "date", iso |-> time])
        @@ (ApiKey._version :> JStr(<<"1", ".", "0">>))
        @@ [key \in kept |-> IF data[key].t = "string" THEN JStr(Trim(data[key].s))
                             ELSE data[key]]

-----------------------------------------------------------------------------
(* Request bodies *)

MaxEdits == 2
MaxSubmissions == 2
MaxClock == 1

AddressOk ==
    JObj(ApiKey.state :> JStr(Val.Delhi) @@ ApiKey.district :> JStr(Val.NewDelhi)
         @@ ApiKey.pinCode :> JStr(Val.pinOk) @@ ApiKey.mobileNumber :> JStr(Val.mobileOk)
         @@ ApiKey.emailId :> JStr(Val.emailOk))

PromoterOk ==
    JObj(ApiKey.name :> JStr(Val.JohnDoe) @@ ApiKey.mobileNumber :> JStr(Val.mobileOk)
         @@ ApiKey.emailId :> JStr(Val.emailOk))

\* a complete record in API names
BaseRecord ==
    ApiKey.enterpriseName :> JStr(Val.JohnDoe)
    @@ ApiKey.enterpriseType :> JStr(Val.Service)
    @@ ApiKey.socialCategory :> JStr(Val.General)
    @@ ApiKey.gender :> JStr(Val.Male)
    @@ ApiKey.declaration :> JBool(TRUE)
    @@ ApiKey.aadhaarNumber :> JStr(Val.aadhaarOk)
    @@ ApiKey.panNumber :> JStr(Val.panOk)
    @@ ApiKey.officialAddress :> AddressOk
    @@ ApiKey.promoterDetails :> PromoterOk

Absent == [t |-> "absent"]

\* the changes a request may make to the complete record: a key set to
\* another value, or left out
EditChoices ==
    ({ApiKey.enterpriseName} \X {JStr(<<>>), Absent})
    \cup ({ApiKey.enterpriseType} \X {JStr(<<"1">>), Absent})
    \cup ({ApiKey.socialCategory} \X {JStr(<<>>), Absent})
    \cup ({ApiKey.gender} \X {Absent})
    \cup ({ApiKey.declaration} \X {JBool(FALSE), JStr(Val.true), JStr(Val.false), Absent})
    \cup ({ApiKey.aadhaarNumber} \X {JStr(Val.aadhaarShort), JStr(Val.aadhaarLetter), JStr(<<>>), Absent})
    \cup ({ApiKey.panNumber} \X {JStr(Val.panLower), JStr(Val.panShort), Absent})
    \cup ({ApiKey.panName} \X {JStr(<<>>), JStr(Val.JohnDoe)})
    \cup ({ApiKey.pinCode} \X {JStr(<<>>), JNull})
    \cup ({ApiKey.emailId} \X {JUndefined})
    \cup ({ApiKey.physicallyHandicapped} \X {JNull})
    \cup ({ApiKey.officialAddress} \X
            { JObj([AddressOk.o EXCEPT ![ApiKey.pinCode] = JStr(Val.pinBad)]),
              JObj([AddressOk.o EXCEPT ![ApiKey.pinCode] = JStr(<<>>)]),
              JNull, Absent })
    \cup ({ApiKey.promoterDetails} \X
            { JObj([key \in {ApiKey.mobileNumber, ApiKey.emailId} |-> PromoterOk.o[key]]), Absent })

Edited(base, edits) ==
    LET touched == {e[1] : e \in edits}
        removed == {e[1] : e \in {x \in edits : x[2] = Absent}}
    IN  [key \in (DOMAIN base \cup touched) \ removed |->
            IF key \in touched THEN (CHOOSE e \in edits : e[1] = key)[2] ELSE base[key]]

\* the sets of at most n changes, no two of them to the same key
RECURSIVE EditSets(_)
EditSets(n) ==
    IF n = 0 THEN {{}}
    ELSE LET smaller == EditSets(n - 1)
         IN  smaller \cup
             {es \cup {e} : es \in smaller,
                            e \in EditChoices}

DistinctKeys(es) == \A a, b \in es : a[1] = b[1] => a = b

Records == {Edited(BaseRecord, es) : es \in {x \in EditSets(MaxEdits) : DistinctKeys(x)}}

-----------------------------------------------------------------------------
(* Form routes (routes/form.ts) and direct calls of validateSubmission *)

VARIABLES
    request,        \* the record of the request being served
    report,         \* the ValidationResult of the latest validateSubmission call
    response,       \* the HTTP response of the latest request
    submissions,    \* the rows of the submissions table
    now             \* the clock

routeVars == <<request, report, response, submissions, now>>

NoReport == [none |-> TRUE]
NoResponse == [status |-> 0]

\* a direct call of the exported validateSubmission
CallValidateSubmission ==
    /\ report' = ValidateSubmission(loadedSchema, request)
    /\ UNCHANGED <<storeVars, request, response, submissions, now>>

\* validateRequestSchema.safeParse and submitRequestSchema.safeParse:
\* z.object({}).passthrough() accepts every object and nothing else
SafeParse(body) == [success |-> body # JNull, data |-> body]

InvalidRequestFormat == [status |-> 400, success |-> FALSE, error |-> "Invalid request format"]

\* POST /validate: the report of validateSubmission, if it was called, and
\* the response
PostValidate(schema, body) ==
    IF ~SafeParse(body).success
        THEN [called |-> FALSE, response |-> InvalidRequestFormat]
    ELSE Once(LAMBDA validationResult :
                [called |-> TRUE, report |-> validationResult,
                 response |->
                    IF validationResult.success
                    THEN [status |-> 200, success |-> TRUE,
                          validatedFields |-> Cardinality(DOMAIN body.o)]
                    ELSE [status |-> 400, success |-> FALSE, error |-> "Validation failed",
                          errors |-> validationResult.errors]],
              ValidateSubmission(schema, body))

ValidateRoute ==
    /\ \E r \in {PostValidate(loadedSchema, request)} :
        /\ report' = IF r.called THEN r.report ELSE report
        /\ response' = r.response
    /\ UNCHANGED <<storeVars, request, submissions, now>>

\* POST /submit without the early return of lines 238-245
SubmitRouteRunWithoutEarlyReturn(validationResult, data, rows, time, dbFails) ==
    IF dbFails
        THEN [rows |-> rows,
              response |-> [status |-> 500, success |-> FALSE, error |-> "Internal server error"]]
    ELSE [rows |-> Append(rows, [id |-> Len(rows) + 1,
                                 data |-> SanitizeSubmissionData(data.o, time),
                                 source |-> data, created_at |-> time]),
          response |-> [status |-> 201, success |-> TRUE, id |-> Len(rows) + 1]]

\* POST /submit after the validation: the 400 answer, or sanitizeSubmissionData
\* and createSubmission, which may fail
SubmitRouteRun(validationResult, data, rows, time, dbFails) ==
    IF ~validationResult.success
        THEN [rows |-> rows,
              response |-> [status |-> 400, success |-> FALSE, error |-> "Validation failed",
                            errors |-> validationResult.errors]]
    ELSE IF dbFails
        THEN [rows |-> rows,
              response |-> [status |-> 500, success |-> FALSE, error |-> "Internal server error"]]
    ELSE [rows |-> Append(rows, [id |-> Len(rows) + 1,
                                 data |-> SanitizeSubmissionData(data.o, time),
                                 source |-> data, created_at |-> time]),
          response |-> [status |-> 201, success |-> TRUE, id |-> Len(rows) + 1]]

\* POST /submit: the report, if validateSubmission was called, the response
\* and the rows of the table afterwards
PostSubmit(schema, body, rows, time, dbFails) ==
    IF ~SafeParse(body).success
        THEN [called |-> FALSE, response |-> InvalidRequestFormat, rows |-> rows]
    ELSE Once(LAMBDA validationResult :
                Once(LAMBDA r : [called |-> TRUE, report |-> validationResult,
                                 response |-> r.response, rows |-> r.rows],
                     SubmitRouteRun(validationResult, body, rows, time, dbFails)),
              ValidateSubmission(schema, body))

SubmitRoute ==
    /\ Len(submissions) < MaxSubmissions
    /\ \E dbFails \in BOOLEAN :
        \E r \in {PostSubmit(loadedSchema, request, submissions, now, dbFails)} :
            /\ report' = IF r.called THEN r.report ELSE report
            /\ response' = r.response
            /\ submissions' = r.rows
    /\ UNCHANGED <<storeVars, request, now>>

Tick ==
    /\ now < MaxClock
    /\ now' = now + 1
    /\ UNCHANGED <<storeVars, request, report, response, submissions>>

\* GET /schema
GetSchema(schema) ==
    Once(LAMBDA r : IF r.threw
                    THEN [status |-> 500, success |-> FALSE, error |-> "Failed to retrieve schema"]
                    ELSE [status |-> 200, success |-> TRUE, data |-> r.value],
         GetLoadedSchemaRun(schema))

\* the body of the README's POST /validate example
ReadmeRecord ==
    Control.txtadharno :> JStr(<<"1", "2", "3", "4", "5", "6", "7", "8", "9", "0", "1", "2">>)
    @@ Control.txtownername :> JStr(Val.JohnDoe)
    @@ Control.ddlTypeofOrg :> JStr(<<"1">>)
    @@ Control.txtPan :> JStr(Val.panOk)

RouteInit ==
    /\ request \in {JObj(r) : r \in Records \cup {ReadmeRecord}} \cup {JNull}
    /\ report = NoReport
    /\ response = NoResponse
    /\ submissions = <<>>
    /\ now = 0

-----------------------------------------------------------------------------
(* The form's schema (hooks/useFormSchema.ts, services/api.ts) *)

CleanFieldName(name) == Replace(name, ASPNET_PREFIX, <<>>)

friendlyNames ==
    Control.txtadharno :> ApiKey.aadhaarNumber @@
    Control.txtownername :> FormKey.entrepreneurName @@
    Control.ddlTypeofOrg :> FormKey.organizationType @@
    Control.txtPan :> ApiKey.panNumber @@
    Control.txtPanName :> FormKey.panHolderName @@
    Control.txtdob :> ApiKey.dateOfBirth @@
    Control.chkDecarationA :> FormKey.aadhaarConsent @@
    Control.chkDecarationP :> FormKey.panConsent @@
    Control.btnValidateAadhaar :> FormKey.validateAadhaar @@
    Control.btnValidatePan :> FormKey.validatePan

GetFriendlyFieldName(backendName) ==
    Once(LAMBDA cleanName : IF cleanName \in DOMAIN friendlyNames THEN friendlyNames[cleanName]
                            ELSE cleanName,
         CleanFieldName(backendName))

ConvertBackendField(backendField) ==
    [name |-> GetFriendlyFieldName(backendField.name),
     backendName |-> CleanFieldName(backendField.name),
     label |-> LabelOr(backendField, CleanFieldName(backendField.name)),
     type |-> CASE backendField.type = "" /\ backendField.tag = "select" -> "select"
                [] backendField.type \in {"submit", "button", "checkbox", "number"} -> backendField.type
                [] OTHER -> "text",
     required |-> backendField.required,
     maxLength |-> IF backendField.maxlength # <<>> THEN ParseInt(backendField.maxlength)
                   ELSE [nan |-> TRUE, n |-> 0],
     pattern |-> backendField.pattern]

\* the filter of convertBackendSchema
IsFormField(field) ==
    /\ field.visible
    /\ ~Includes(field.name, Sub.uwaw)
    /\ ~Includes(field.name, Sub.accessibility)
    /\ field.name # Control.NA
    /\ Includes(field.name, ASPNET_PREFIX)

ConvertBackendSchema(backendSchema) ==
    [steps |->
        [i \in 1..Len(backendSchema.steps.a) |->
            Once(LAMBDA kept : [id |-> backendSchema.steps.a[i].id,
                                title |-> backendSchema.steps.a[i].title,
                                fields |-> [j \in 1..Len(kept) |-> ConvertBackendField(kept[j])]],
                 SelectSeq(backendSchema.steps.a[i].fields, IsFormField))]]

-----------------------------------------------------------------------------
(* The record the form sends (services/api.ts: convertToBackendFormat) *)

\* formData keeps its keys in the order they were first set: a sequence of
\* <<key, value>> pairs
HasKey(pairs, key) == \E i \in 1..Len(pairs) : pairs[i][1] = key

ValueOf(pairs, key) ==
    IF HasKey(pairs, key) THEN pairs[CHOOSE i \in 1..Len(pairs) : pairs[i][1] = key][2]
    ELSE JUndefined

fieldMapping ==
    ApiKey.aadhaarNumber :> ApiKey.aadhaarNumber @@
    FormKey.entrepreneurName :> ApiKey.enterpriseName @@
    FormKey.organizationType :> ApiKey.enterpriseType @@
    ApiKey.panNumber :> ApiKey.panNumber @@
    FormKey.panHolderName :> ApiKey.panName @@
    ApiKey.dateOfBirth :> ApiKey.dateOfBirth @@
    FormKey.aadhaarConsent :> ApiKey.declaration @@
    FormKey.panConsent :> ApiKey.declaration

BackendKey(key) == IF key \in DOMAIN fieldMapping THEN fieldMapping[key] ELSE key

\* the loop of lines 216-219: a later pair replaces an earlier one that has
\* the same backend key
MappedData(frontendData) ==
    [backendKey \in {BackendKey(frontendData[i][1]) : i \in 1..Len(frontendData)} |->
        LET last == CHOOSE i \in 1..Len(frontendData) :
                        /\ BackendKey(frontendData[i][1]) = backendKey
                        /\ \A j \in (i + 1)..Len(frontendData) :
                                BackendKey(frontendData[j][1]) # backendKey
        IN  frontendData[last][2]]

MockOfficialAddress ==
    JObj(ApiKey.state :> JStr(Val.Delhi) @@ ApiKey.district :> JStr(Val.NewDelhi)
         @@ ApiKey.pinCode :> JStr(Val.pinOk) @@ ApiKey.mobileNumber :> JStr(Val.mobileOk)
         @@ ApiKey.emailId :> JStr(Val.emailOk))

MockPromoterDetails(enterpriseName) ==
    JObj(ApiKey.name :> (IF Truthy(enterpriseName) THEN enterpriseName
                         ELSE JStr(Val.TestEntrepreneur))
         @@ ApiKey.mobileNumber :> JStr(Val.mobileOk)
         @@ ApiKey.emailId :> JStr(Val.emailOk))

\* backendData[key] = value when cond, as lines 222-261 assign
AssignIf(cond, backendData, key, value) ==
    IF cond THEN (key :> value) @@ backendData ELSE backendData

ConvertToBackendFormat(frontendData) ==
    Once(LAMBDA d6 :
            AssignIf(~Truthy(DataProp(d6, ApiKey.promoterDetails)),
                     d6, ApiKey.promoterDetails,
                     MockPromoterDetails(DataProp(d6, ApiKey.enterpriseName))),
    Once(LAMBDA d5 :
            AssignIf(~Truthy(DataProp(d5, ApiKey.officialAddress)),
                     d5, ApiKey.officialAddress, MockOfficialAddress),
    Once(LAMBDA d4 :
            AssignIf(DataProp(d4, ApiKey.declaration) # JBool(FALSE),
                     d4, ApiKey.declaration, JBool(TRUE)),
    Once(LAMBDA d3 :
            AssignIf(~Truthy(DataProp(d3, ApiKey.gender)), d3, ApiKey.gender, JStr(Val.Male)),
    Once(LAMBDA d2 :
            AssignIf(~Truthy(DataProp(d2, ApiKey.socialCategory)),
                     d2, ApiKey.socialCategory, JStr(Val.General)),
    Once(LAMBDA d1 :
            AssignIf(~Truthy(DataProp(d1, ApiKey.enterpriseName))
                        /\ Truthy(DataProp(d1, FormKey.entrepreneurName)),
                     d1, ApiKey.enterpriseName, DataProp(d1, FormKey.entrepreneurName)),
    Once(LAMBDA d0 :
            AssignIf(~Truthy(DataProp(d0, ApiKey.enterpriseType))
                        /\ Truthy(DataProp(d0, FormKey.organizationType)),
                     d0, ApiKey.enterpriseType, DataProp(d0, FormKey.organizationType)),
         MappedData(frontendData))))))))

-----------------------------------------------------------------------------
(* The form session (hooks/useFormValidation.ts, components/FormRenderer.tsx) *)

MaxChanges == 2

VARIABLES
    formSchema,     \* useFormSchema: loading, an error, or the converted schema
    currentStep,    \* the ordinal of the step shown
    formData,       \* the values typed so far, <<key, value>> pairs in insertion order
    fieldErrors,    \* the messages shown, by field name
    completedSteps, \* the steps passed with Next, in the order they were passed
    pending,        \* the formData handed to submitForm while its promise is open
    toast,          \* the title of the latest toast
    settled,        \* history: the latest call of next() or previous(), or what the
                    \* latest settled submitForm met, until the user acts
    changes         \* history: the number of field changes so far

formVars ==
    <<formSchema, currentStep, formData, fieldErrors, completedSteps, pending, toast,
      settled, changes>>

NoPending == [open |-> FALSE]
NoSettle == [kind |-> "none"]

\* ApiService.request: a response that is not ok is thrown as an Error whose
\* message is the response's error text
ApiRequest(httpResponse) ==
    IF httpResponse.status >= 200 /\ httpResponse.status < 300
    THEN [threw |-> FALSE, data |-> httpResponse]
    ELSE [threw |-> TRUE, message |-> httpResponse.error]

\* validateCurrentStep for one field: the message assigned last
StepFieldError(field, value) ==
    IF /\ Truthy(value) /\ ~field.maxLength.nan /\ field.maxLength.n # 0
       /\ value.t = "string" /\ Len(value.s) > field.maxLength.n
        THEN Msg("${field.label} must not exceed ${field.maxLength} characters", field.label)
    ELSE IF Truthy(value) /\ field.pattern # "" /\ ~RegExpTest(field.pattern, StringOf(value))
        THEN IF field.name = ApiKey.aadhaarNumber
                THEN Msg("Aadhaar number must be 12 digits", <<>>)
             ELSE IF field.name = ApiKey.panNumber
                THEN Msg("PAN must be in format: ABCDE1234F", <<>>)
             ELSE Msg("${field.label} format is invalid", field.label)
    ELSE IF field.required /\ ~Truthy(value)
        THEN Msg("${field.label} is required", field.label)
    ELSE NoError

\* the fields of every step, in document order
RECURSIVE AllStepFields(_, _)
AllStepFields(steps, n) ==
    IF n = 0 THEN <<>> ELSE AllStepFields(steps, n - 1) \o steps[n].fields

\* a validateCurrentStep that walks the fields of every step
ValidateEveryStep(schema, step, data) ==
    LET fields == AllStepFields(schema.steps, Len(schema.steps))
        checked == {i \in 1..Len(fields) : fields[i].type \notin {"submit", "button"}}
        failed == {i \in checked : StepFieldError(fields[i], ValueOf(data, fields[i].name)) # NoError}
    IN  [threw |-> \E i \in checked : /\ Truthy(ValueOf(data, fields[i].name))
                                      /\ fields[i].pattern # ""
                                      /\ RegExpThrows(fields[i].pattern),
         isValid |-> failed = {},
         errors |-> [name \in {fields[i].name : i \in failed} |->
                        LET last == CHOOSE i \in failed :
                                        /\ fields[i].name = name
                                        /\ \A j \in failed : fields[j].name = name => j <= i
                        IN  StepFieldError(fields[last], ValueOf(data, name))]]

\* validateCurrentStep: the errors it sets and its answer; it raises when a
\* field with a value has a malformed pattern
ValidateCurrentStep(schema, step, data) ==
    LET fields == schema.steps[step].fields
        checked == {i \in 1..Len(fields) : fields[i].type \notin {"submit", "button"}}
        failed == {i \in checked : StepFieldError(fields[i], ValueOf(data, fields[i].name)) # NoError}
    IN  [threw |-> \E i \in checked : /\ Truthy(ValueOf(data, fields[i].name))
                                      /\ fields[i].pattern # ""
                                      /\ RegExpThrows(fields[i].pattern),
         isValid |-> failed = {},
         errors |-> [name \in {fields[i].name : i \in failed} |->
                        LET last == CHOOSE i \in failed :
                                        /\ fields[i].name = name
                                        /\ \A j \in failed : fields[j].name = name => j <= i
                        IN  StepFieldError(fields[last], ValueOf(data, name))]]

\* useFormValidation.validateForm: the result, and what the backend answered
ValidateForm(schema, data) ==
    Once(LAMBDA posted :
            Once(LAMBDA answer :
                    [posted |-> posted,
                     success |-> ~answer.threw /\ answer.data.success,
                     fieldErrors |->
                        IF answer.threw THEN ApiKey.general :> Msg(answer.message, <<>>)
                        ELSE <<>>],
                 ApiRequest(posted.response)),
         PostValidate(schema, JObj(ConvertToBackendFormat(data))))

\* useFormValidation.submitForm
SubmitForm(schema, data, rows, time, dbFails) ==
    Once(LAMBDA validationResult :
            IF ~validationResult.success
            THEN [success |-> FALSE, hasFieldErrors |-> TRUE,
                  fieldErrors |-> validationResult.fieldErrors,
                  posted |-> validationResult.posted, rows |-> rows]
            ELSE Once(LAMBDA posted :
                        [success |-> ~ApiRequest(posted.response).threw,
                         hasFieldErrors |-> FALSE, fieldErrors |-> <<>>,
                         posted |-> posted, rows |-> posted.rows],
                      PostSubmit(schema, JObj(ConvertToBackendFormat(data)), rows, time, dbFails)),
         ValidateForm(schema, data))

\* the effect of useFormSchema: GET /schema, converted
UseFormSchema ==
    /\ formSchema.t = "loading"
    /\ \E answer \in {ApiRequest(GetSchema(loadedSchema))} :
        formSchema' = IF answer.threw THEN [t |-> "error", error |-> answer.message]
                      ELSE [t |-> "schema",
                            steps |-> ConvertBackendSchema(answer.data.data).steps]
    /\ UNCHANGED <<storeVars, routeVars, currentStep, formData, fieldErrors, completedSteps,
                   pending, toast, settled, changes>>

\* the values a user gives to a field of the form
InputsFor(field) ==
    CASE field.type = "checkbox" -> {JBool(TRUE), JBool(FALSE)}
      [] field.type = "select" -> {JStr(<<"1">>)}
      [] field.name = ApiKey.aadhaarNumber -> {JStr(Val.aadhaarOk), JStr(Val.aadhaarShort)}
      [] field.name = ApiKey.panNumber -> {JStr(Val.panOk), JStr(Val.panLower)}
      [] field.name \in {FormKey.entrepreneurName, FormKey.panHolderName} -> {JStr(Val.JohnDoe)}
      [] field.name = FormKey.organizationType -> {JStr(<<"1">>)}
      [] OTHER -> {}

\* formData after setFormData(prev => ({...prev, [fieldName]: value}))
WithValue(pairs, fieldName, value) ==
    IF HasKey(pairs, fieldName)
    THEN [i \in 1..Len(pairs) |-> IF pairs[i][1] = fieldName THEN <<fieldName, value>> ELSE pairs[i]]
    ELSE Append(pairs, <<fieldName, value>>)

HandleFieldChange ==
    /\ formSchema.t = "schema"
    /\ changes < MaxChanges
    /\ \E i \in 1..Len(formSchema.steps[currentStep].fields) :
        \E value \in InputsFor(formSchema.steps[currentStep].fields[i]) :
            LET fieldName == formSchema.steps[currentStep].fields[i].name
            IN  /\ formSchema.steps[currentStep].fields[i].type \notin {"submit", "button"}
                /\ formData' = WithValue(formData, fieldName, value)
                /\ fieldErrors' = [key \in DOMAIN fieldErrors \ {fieldName} |-> fieldErrors[key]]
    /\ changes' = changes + 1
    /\ settled' = NoSettle
    /\ UNCHANGED <<storeVars, routeVars, formSchema, currentStep, completedSteps, pending, toast>>

\* a Submit button rendered on every step
IsLastStepOnEveryStep == TRUE

\* FormRenderer: isLastStep, which decides between the Next and the Submit button
IsLastStep == currentStep = Len(formSchema.steps)

\* a step forward that is not clamped
StepAfterNextUnclamped(step, stepCount) == step + 1

\* handleNext, lines 359-361: the ordinal after a step that validated
StepAfterNext(step, stepCount) == IF step < stepCount THEN step + 1 ELSE step

\* a handleNext that adds the step to the completed steps without looking
\* whether it is there
HandleNextRunAppendingAlways ==
    /\ formSchema.t = "schema"
    /\ \E v \in {ValidateCurrentStep(formSchema, currentStep, formData)} :
        IF v.threw THEN UNCHANGED <<fieldErrors, completedSteps, currentStep>>
        ELSE /\ fieldErrors' = v.errors
             /\ IF v.isValid
                THEN /\ completedSteps' = Append(completedSteps, currentStep)
                     /\ currentStep' = StepAfterNext(currentStep, Len(formSchema.steps))
                ELSE UNCHANGED <<completedSteps, currentStep>>
    /\ settled' = [kind |-> "next", stepBefore |-> currentStep,
                   completedBefore |-> completedSteps]
    /\ UNCHANGED <<storeVars, routeVars, formSchema, formData, pending, toast, changes>>

\* handleNext, called on any step
HandleNextRun ==
    /\ formSchema.t = "schema"
    /\ \E v \in {ValidateCurrentStep(formSchema, currentStep, formData)} :
        IF v.threw THEN UNCHANGED <<fieldErrors, completedSteps, currentStep>>
        ELSE /\ fieldErrors' = v.errors
             /\ IF v.isValid
                THEN /\ completedSteps' =
                            IF \E i \in 1..Len(completedSteps) : completedSteps[i] = currentStep
                            THEN completedSteps ELSE Append(completedSteps, currentStep)
                     /\ currentStep' = StepAfterNext(currentStep, Len(formSchema.steps))
                ELSE UNCHANGED <<completedSteps, currentStep>>
    /\ settled' = [kind |-> "next", stepBefore |-> currentStep,
                   completedBefore |-> completedSteps]
    /\ UNCHANGED <<storeVars, routeVars, formSchema, formData, pending, toast, changes>>

\* a click on the Next button, which is rendered on every step but the last
HandleNext == formSchema.t = "schema" /\ ~IsLastStep /\ HandleNextRun

\* handlePrevious, called on any step
HandlePreviousRun ==
    /\ formSchema.t = "schema"
    /\ currentStep' = IF currentStep > 1 THEN currentStep - 1 ELSE currentStep
    /\ settled' = [kind |-> "previous", stepBefore |-> currentStep,
                   completedBefore |-> completedSteps]
    /\ UNCHANGED <<storeVars, routeVars, formSchema, formData, fieldErrors, completedSteps,
                   pending, toast, changes>>

\* a click on the Previous button, which is disabled on step 1
HandlePrevious == formSchema.t = "schema" /\ currentStep # 1 /\ HandlePreviousRun

\* handleSubmit up to its await: the step check, then submitForm(formData)
HandleSubmit ==
    /\ formSchema.t = "schema"
    /\ IsLastStep
    /\ ~pending.open
    /\ \E v \in {ValidateCurrentStep(formSchema, currentStep, formData)} :
        IF v.threw THEN UNCHANGED <<fieldErrors, pending, toast>>
        ELSE /\ fieldErrors' = v.errors
             /\ IF v.isValid
                THEN /\ pending' = [open |-> TRUE, formData |-> formData]
                     /\ UNCHANGED toast
                ELSE /\ toast' = "Validation Error"
                     /\ UNCHANGED pending
    /\ settled' = NoSettle
    /\ UNCHANGED <<storeVars, routeVars, formSchema, currentStep, formData, completedSteps, changes>>

\* handleSubmit from its await on: submitForm settles
SubmitSettles ==
    /\ pending.open
    /\ Len(submissions) < MaxSubmissions
    /\ \E dbFails \in BOOLEAN :
        \E result \in {SubmitForm(loadedSchema, pending.formData, submissions, now, dbFails)} :
            /\ request' = JObj(ConvertToBackendFormat(pending.formData))
            /\ report' = result.posted.report
            /\ response' = result.posted.response
            /\ submissions' = result.rows
            /\ settled' = [kind |-> IF result.success THEN "stored"
                                    ELSE IF ~result.posted.report.success THEN "rejected"
                                    ELSE "failed",
                           errors |-> result.posted.report.errors,
                           stepBefore |-> currentStep,
                           formDataBefore |-> formData,
                           formDataSent |-> pending.formData,
                           completedBefore |-> completedSteps]
            /\ IF result.success
               THEN /\ toast' = "Form Submitted Successfully!"
                    /\ formData' = <<>>
                    /\ fieldErrors' = <<>>
                    /\ currentStep' = 1
                    /\ completedSteps' = <<>>
               ELSE /\ toast' = "Submission Failed"
                    /\ fieldErrors' = IF result.hasFieldErrors THEN result.fieldErrors
                                      ELSE fieldErrors
                    /\ UNCHANGED <<formData, currentStep, completedSteps>>
    /\ pending' = NoPending
    /\ UNCHANGED <<storeVars, now, formSchema, changes>>

FormInit ==
    /\ formSchema = [t |-> "loading"]
    /\ currentStep = 1
    /\ formData = <<>>
    /\ fieldErrors = <<>>
    /\ completedSteps = <<>>
    /\ pending = NoPending
    /\ toast = ""
    /\ settled = NoSettle
    /\ changes = 0

-----------------------------------------------------------------------------
(* Direct calls of the name helpers, of sanitizeSubmissionData and of
   validateSubmission by several clients *)

MaxPieces == 3
MaxCalls == 2

VARIABLES
    rawName,        \* the name handed to the name helpers
    resolved,       \* what the latest call of a name helper on rawName returned
    sanitized,      \* what the latest calls of sanitizeSubmissionData returned
    served          \* history: the validateSubmission calls served so far

libVars == <<rawName, resolved, sanitized, served>>

LibInit ==
    /\ rawName = <<>>
    /\ resolved = [op |-> "none"]
    /\ sanitized = [op |-> "none"]
    /\ served = <<>>

\* raw names: the namespace prefix and the names of the controls, put
\* together in any order
NamePieces == {ASPNET_PREFIX} \cup {Control[c] : c \in DOMAIN Control}

RECURSIVE RawNames(_)
RawNames(n) ==
    IF n = 0 THEN {<<>>}
    ELSE Once(LAMBDA shorter : shorter \cup {piece \o name : piece \in NamePieces, name \in shorter},
              RawNames(n - 1))

\* cleanFieldName applied to rawName, and to its own result
CleanTwice ==
    /\ resolved' = [op |-> "clean", once |-> CleanFieldName(rawName),
                    twice |-> CleanFieldName(CleanFieldName(rawName))]
    /\ UNCHANGED <<storeVars, routeVars, formVars, rawName, sanitized, served>>

\* the name of a control carried to the form and back: getFriendlyFieldName,
\* then fieldMapping of convertToBackendFormat, then getSchemaFieldName
RoundTrip ==
    /\ \E friendly \in {GetFriendlyFieldName(rawName)} :
        resolved' = [op |-> "roundTrip", friendly |-> friendly, api |-> BackendKey(friendly),
                     raw |-> GetSchemaFieldName(BackendKey(friendly))]
    /\ UNCHANGED <<storeVars, routeVars, formVars, rawName, sanitized, served>>

\* keys and values a client may add to a record
OtherKey ==
    [ __proto__ |-> <<"_", "_", "p", "r", "o", "t", "o", "_", "_">>,
      prototypeOf |-> <<"p", "r", "o", "t", "o", "t", "y", "p", "e", "O", "f">>,
      remarks |-> <<"r", "e", "m", "a", "r", "k", "s">> ]

Padded(s) == <<" ", "\t">> \o s \o <<" ", " ">>

SanitizeChoices ==
    ({ApiKey.enterpriseName} \X {JStr(Padded(Val.JohnDoe)), JStr(<<" ">>)})
    \cup ({ApiKey.gender} \X {JStr(Padded(Val.Male)), Absent})
    \cup ({ApiKey.officialAddress} \X
            {JObj([AddressOk.o EXCEPT ![ApiKey.state] = JStr(Padded(Val.Delhi))]), Absent})
    \cup ({OtherKey.__proto__} \X {JStr(Val.true)})
    \cup ({OtherKey.prototypeOf} \X {JObj(<<>>)})
    \cup ({OtherKey.remarks} \X {JStr(Padded(Val.Other)), JNull})
    \cup ({ApiKey._submittedAt} \X {JStr(Padded(Val.null))})
    \cup ({ApiKey._version} \X {JStr(<<"0", ".", "9">>)})

\* the records handed to sanitizeSubmissionData
SanitizeInputs ==
    {Edited(BaseRecord, es) :
        es \in {x \in SUBSET SanitizeChoices : Cardinality(x) <= MaxEdits /\ DistinctKeys(x)}}

\* sanitizeSubmissionData(data)
Sanitize ==
    /\ sanitized' = [op |-> "once", once |-> SanitizeSubmissionData(request.o, now)]
    /\ UNCHANGED <<storeVars, routeVars, formVars, rawName, resolved, served>>

\* sanitizeSubmissionData applied to the record it returned
SanitizeAgain ==
    /\ sanitized.op # "none"
    /\ sanitized' = [op |-> "twice", once |-> sanitized.once,
                     twice |-> SanitizeSubmissionData(sanitized.once, now)]
    /\ UNCHANGED <<storeVars, routeVars, formVars, rawName, resolved, served>>

\* the records of the clients that ask for a validation
ServeRecords ==
    {JObj(Edited(BaseRecord, es)) :
        es \in {{}, {<<ApiKey.aadhaarNumber, JStr(Val.aadhaarShort)>>},
                {<<ApiKey.gender, Absent>>, <<ApiKey.declaration, JBool(FALSE)>>}}}

\* the request of another client arrives
NewRequest ==
    /\ request' \in ServeRecords \ {request}
    /\ UNCHANGED <<storeVars, report, response, submissions, now, formVars, libVars>>

\* a validateSubmission whose errors object outlives the call
ServeValidationSharingErrors ==
    /\ Len(served) < MaxCalls
    /\ \E result \in {ValidateSubmission(loadedSchema, request)} :
        \E errors \in {IF report = NoReport THEN result.errors ELSE result.errors @@ report.errors} :
            /\ report' = [success |-> DOMAIN errors = {}, errors |-> errors]
            /\ served' = Append(served, [data |-> request, schema |-> loadedSchema,
                                         report |-> report'])
    /\ UNCHANGED <<storeVars, request, response, submissions, now, formVars,
                   rawName, resolved, sanitized>>

\* a validateSubmission that fills one errors object kept across calls, so
\* that the reports handed out earlier show the errors of the latest call
ServeValidationReusingErrorsObject ==
    /\ Len(served) < MaxCalls
    /\ \E result \in {ValidateSubmission(loadedSchema, request)} :
            /\ report' = result
            /\ served' = Append([i \in 1..Len(served) |->
                                    [served[i] EXCEPT !.report.errors = result.errors]],
                                [data |-> request, schema |-> loadedSchema,
                                 report |-> result])
    /\ UNCHANGED <<storeVars, request, response, submissions, now, formVars,
                   rawName, resolved, sanitized>>

\* validateSubmission(data) for the request at hand: the call runs to its
\* return without a suspension, so every read of loadedSchema in it finds
\* the document that is active when it starts
ServeValidation ==
    /\ Len(served) < MaxCalls
    /\ \E result \in {ValidateSubmission(loadedSchema, request)} :
            /\ report' = result
            /\ served' = Append(served, [data |-> request, schema |-> loadedSchema,
                                         report |-> result])
    /\ UNCHANGED <<storeVars, request, response, submissions, now, formVars,
                   rawName, resolved, sanitized>>

-----------------------------------------------------------------------------
(* The server process (server.ts: bootstrap, gracefulShutdown; db.ts: the
   signal listeners registered when the module is imported) *)

MaxSignals == 1
MaxConnections == 1
MaxRequests == 1

VARIABLES
    env,            \* what this start finds: configuration, database, schema file
    pc,             \* the statement of bootstrap() that runs next
    bootLog,        \* the statements of bootstrap() run so far, in order
    server,         \* the HTTP server: none, listening, closing, closed
    connections,    \* open keep-alive connections
    handledLog,     \* one entry per request answered
    signals,        \* SIGTERM / SIGINT delivered so far
    dbHandler,      \* the listener of db.ts: idle, or awaiting disconnectDatabase
    shutdown,       \* gracefulShutdown: idle, armed (close asked, timer set),
                    \* or disconnecting (the close callback awaits disconnectDatabase)
    db,             \* the database client: unknown, connected, disconnected
    exited          \* "no", or the exit code "0" / "1"

procVars == <<env, pc, bootLog, server, connections, handledLog, signals, dbHandler,
              shutdown, db, exited>>

Running == exited = "no"

\* the catch of bootstrap(): process.exit(1)
BootFails ==
    /\ pc' = "failed"
    /\ exited' = "1"

\* 1. validateConfig()
ValidateConfigAtBoot ==
    /\ Running /\ pc = "validateConfig"
    /\ bootLog' = Append(bootLog, "validateConfig")
    /\ IF env.configOk THEN pc' = "testDatabaseConnection" /\ exited' = exited
       ELSE BootFails

\* 2. await testDatabaseConnection()
TestDatabaseConnectionAtBoot ==
    /\ Running /\ pc = "testDatabaseConnection"
    /\ bootLog' = Append(bootLog, "testDatabaseConnection")
    /\ IF env.dbOk THEN pc' = "loadSchema" /\ exited' = exited /\ db' = "connected"
       ELSE BootFails /\ db' = db

\* 3. await loadSchema(config.schemaPath), continuing whatever the outcome
LoadSchemaAtBootIgnoringFailure ==
    /\ Running /\ pc = "loadSchema"
    /\ LoadSchemaFrom({env.file})
    /\ bootLog' = Append(bootLog, "loadSchema")
    /\ pc' = "listen" /\ exited' = exited

\* 3. await loadSchema(config.schemaPath)
LoadSchemaAtBoot ==
    /\ Running /\ pc = "loadSchema"
    /\ LoadSchemaFrom({env.file})
    /\ bootLog' = Append(bootLog, "loadSchema")
    /\ IF loadOutcome'.threw THEN BootFails
       ELSE pc' = "listen" /\ exited' = exited

\* 4., 5. createApp(), app.listen(...) and the process.on(...) registrations:
\* no await separates them
Listen ==
    /\ Running /\ pc = "listen"
    /\ bootLog' = Append(bootLog, "listen")
    /\ server' = "listening"
    /\ pc' = "done"

\* a request arrives at the listening server: POST /validate
ServeRequest ==
    /\ Running /\ server = "listening"
    /\ Len(handledLog) < MaxRequests
    /\ ValidateRoute
    /\ handledLog' = Append(handledLog, [schemaLoaded |-> loadedSchema # JNull,
                                         status |-> response'.status])

OpenConnection ==
    /\ Running /\ server = "listening"
    /\ connections < MaxConnections
    /\ connections' = connections + 1

CloseConnection ==
    /\ Running /\ connections > 0
    /\ ~(server = "closing" /\ connections = 1)
    /\ connections' = connections - 1

\* SIGTERM or SIGINT: the listeners run in the order of their registration;
\* the one of db.ts runs up to its await, gracefulShutdown (registered once
\* bootstrap() is through) asks the server to close and sets the timer.  A
\* server without connections emits close on the next tick, ahead of every
\* promise, so its callback has run up to its await when the step is over
Signal ==
    /\ Running
    /\ signals < MaxSignals
    /\ signals' = signals + 1
    /\ dbHandler' = "disconnecting"
    /\ IF pc = "done"
       THEN IF server = "listening" /\ connections = 0
            THEN server' = "closed" /\ shutdown' = "disconnecting"
            ELSE /\ server' = IF server = "listening" THEN "closing" ELSE server
                 /\ shutdown' = IF shutdown = "idle" THEN "armed" ELSE shutdown
       ELSE UNCHANGED <<server, shutdown>>

\* the last connection ends while the server is closing: the callback of
\* server.close runs up to its await
CloseLastConnection ==
    /\ Running /\ server = "closing" /\ connections = 1
    /\ connections' = 0
    /\ server' = "closed"
    /\ shutdown' = "disconnecting"

\* disconnectDatabase() of the close callback settles: process.exit(0), or
\* process.exit(1) from its catch
ShutdownDisconnected ==
    /\ Running /\ shutdown = "disconnecting"
    /\ \E fails \in BOOLEAN :
        /\ db' = IF fails THEN db ELSE "disconnected"
        /\ exited' = IF fails THEN "1" ELSE "0"

\* disconnectDatabase() of the db.ts listener settles: process.exit(0); a
\* rejection is unhandled and ends the process with code 1
DbHandlerDisconnected ==
    /\ Running /\ dbHandler = "disconnecting"
    /\ \E fails \in BOOLEAN :
        /\ db' = IF fails THEN db ELSE "disconnected"
        /\ exited' = IF fails THEN "1" ELSE "0"

\* the timer of gracefulShutdown fires
ForcedShutdown ==
    /\ Running /\ shutdown # "idle"
    /\ exited' = "1"

\* the process after its modules are loaded, before bootstrap() runs
ProcInit(envs) ==
    /\ env \in envs
    /\ pc = "validateConfig"
    /\ bootLog = <<>>
    /\ server = "none"
    /\ connections = 0
    /\ handledLog = <<>>
    /\ signals = 0
    /\ dbHandler = "idle"
    /\ shutdown = "idle"
    /\ db = "unknown"
    /\ exited = "no"

-----------------------------------------------------------------------------
(* Specifications *)

vars == <<storeVars, routeVars, formVars, libVars, procVars>>

\* the process as the other specifications leave it: not started
ProcIdle == ProcInit({[configOk |-> TRUE, dbOk |-> TRUE, file |-> JsonFile(ScrapedDoc)]})

\* the schema store alone: any sequence of loads and reads
Init ==
    /\ StoreInit
    /\ request = JObj(BaseRecord)
    /\ report = NoReport
    /\ response = NoResponse
    /\ submissions = <<>>
    /\ now = 0
    /\ FormInit
    /\ LibInit
    /\ ProcIdle

StoreNext ==
    \/ LoadSchema /\ UNCHANGED <<routeVars, formVars, libVars, procVars>>
    \/ GetLoadedSchema /\ UNCHANGED <<routeVars, formVars, libVars, procVars>>

SpecStore == Init /\ [][StoreNext]_vars

\* the files a serving process may have been started on
ServingFiles ==
    {NoFile, JsonFile(ScrapedDoc), JsonFile(StrictDoc), JsonFile(BareDoc), JsonFile(NullStepDoc)}

\* the store as one loadSchema call on one of the files leaves it
LoadedInit(files) ==
    \E file \in files :
        \E r \in {LoadSchemaRun(file, JNull)} :
            /\ loadedSchema = r.schema
            /\ loadOutcome = r
            /\ schemaBefore = JNull
            /\ lastLoaded = IF r.threw THEN JNull ELSE r.value
            /\ getOutcome = NoCall

\* the validation engine: the record and the store are drawn at the start,
\* validateSubmission is applied directly and through POST /validate
ValidateInit == LoadedInit(ServingFiles) /\ RouteInit /\ FormInit /\ LibInit /\ ProcIdle

ValidateNext ==
    \/ CallValidateSubmission /\ UNCHANGED <<formVars, libVars, procVars>>
    \/ ValidateRoute /\ UNCHANGED <<formVars, libVars, procVars>>

SpecValidate == ValidateInit /\ [][ValidateNext]_vars

\* the submit path: POST /submit, repeated, while the clock runs
SubmitInit ==
    /\ LoadedInit(ServingFiles)
    /\ request \in {JObj(Edited(BaseRecord, es)) : es \in EditSets(1)} \cup {JNull}
    /\ report = NoReport
    /\ response = NoResponse
    /\ submissions = <<>>
    /\ now = 0
    /\ FormInit
    /\ LibInit
    /\ ProcIdle

SubmitNext ==
    \/ SubmitRoute /\ UNCHANGED <<formVars, libVars, procVars>>
    \/ Tick /\ UNCHANGED <<formVars, libVars, procVars>>

SpecSubmit == SubmitInit /\ [][SubmitNext]_vars

\* a form session in front of a server that loaded its schema
FormSessionInit ==
    /\ LoadedInit({JsonFile(ScrapedDoc), JsonFile(StrictDoc)})
    /\ request = JNull
    /\ report = NoReport
    /\ response = NoResponse
    /\ submissions = <<>>
    /\ now = 0
    /\ FormInit
    /\ LibInit
    /\ ProcIdle

FormNext ==
    \/ UseFormSchema /\ UNCHANGED <<libVars, procVars>>
    \/ HandleFieldChange /\ UNCHANGED <<libVars, procVars>>
    \/ HandleNext /\ UNCHANGED <<libVars, procVars>>
    \/ HandlePrevious /\ UNCHANGED <<libVars, procVars>>
    \/ HandleSubmit /\ UNCHANGED <<libVars, procVars>>
    \/ SubmitSettles /\ UNCHANGED <<libVars, procVars>>

SpecForm == FormSessionInit /\ [][FormNext]_vars

\* the navigation handlers called on any step, whatever the buttons shown
NavigateNext ==
    \/ UseFormSchema /\ UNCHANGED <<libVars, procVars>>
    \/ HandleFieldChange /\ UNCHANGED <<libVars, procVars>>
    \/ HandleNextRun /\ UNCHANGED <<libVars, procVars>>
    \/ HandlePreviousRun /\ UNCHANGED <<libVars, procVars>>

SpecNavigate == FormSessionInit /\ [][NavigateNext]_vars

\* the name helpers, applied to a raw name drawn at the start
NamesInit ==
    /\ StoreInit /\ FormInit /\ ProcIdle
    /\ request = JObj(BaseRecord)
    /\ report = NoReport
    /\ response = NoResponse
    /\ submissions = <<>>
    /\ now = 0
    /\ rawName \in RawNames(MaxPieces)
    /\ resolved = [op |-> "none"]
    /\ sanitized = [op |-> "none"]
    /\ served = <<>>

NamesNext ==
    \/ CleanTwice /\ UNCHANGED procVars
    \/ RoundTrip /\ UNCHANGED procVars

SpecNames == NamesInit /\ [][NamesNext]_vars

\* sanitizeSubmissionData, applied to a record drawn at the start and to its
\* own result while the clock runs
SanitizeInit ==
    /\ StoreInit /\ FormInit /\ LibInit /\ ProcIdle
    /\ request \in {JObj(r) : r \in SanitizeInputs}
    /\ report = NoReport
    /\ response = NoResponse
    /\ submissions = <<>>
    /\ now = 0

SanitizeNext ==
    \/ Sanitize /\ UNCHANGED procVars
    \/ SanitizeAgain /\ UNCHANGED procVars
    \/ Tick /\ UNCHANGED <<formVars, libVars, procVars>>

SpecSanitize == SanitizeInit /\ [][SanitizeNext]_vars

\* the files a reload may find at the schema path
ReloadFiles == {NoFile, JsonFile(ScrapedDoc), JsonFile(StrictDoc), JsonFile(NullStepDoc)}

\* validations for several clients, in any order with reloads of the schema
ServeInit ==
    /\ LoadedInit(ReloadFiles) /\ FormInit /\ LibInit /\ ProcIdle
    /\ request \in ServeRecords
    /\ report = NoReport
    /\ response = NoResponse
    /\ submissions = <<>>
    /\ now = 0

ServeNext ==
    \/ LoadSchemaFrom(ReloadFiles) /\ UNCHANGED <<routeVars, formVars, libVars, procVars>>
    \/ NewRequest /\ UNCHANGED procVars
    \/ ServeValidation /\ UNCHANGED procVars

SpecServe == ServeInit /\ [][ServeNext]_vars

------------------------------------------------------------------------\* one start of the server process: bootstrap(), requests and connections
\* while it listens, signals at any time
ProcessEnvs == [configOk : BOOLEAN, dbOk : BOOLEAN, file : ServingFiles]

ProcessInit ==
    /\ StoreInit /\ FormInit /\ LibInit
    /\ request \in ServeRecords \cup {JNull}
    /\ report = NoReport
    /\ response = NoResponse
    /\ submissions = <<>>
    /\ now = 0
    /\ ProcInit(ProcessEnvs)

ProcessNext ==
    \/ ValidateConfigAtBoot
        /\ UNCHANGED <<storeVars, routeVars, formVars, libVars, env, server, connections,
                       handledLog, signals, dbHandler, shutdown, db>>
    \/ TestDatabaseConnectionAtBoot
        /\ UNCHANGED <<storeVars, routeVars, formVars, libVars, env, server, connections,
                       handledLog, signals, dbHandler, shutdown>>
    \/ LoadSchemaAtBoot
        /\ UNCHANGED <<routeVars, formVars, libVars, env, server, connections,
                       handledLog, signals, dbHandler, shutdown, db>>
    \/ Listen
        /\ UNCHANGED <<storeVars, routeVars, formVars, libVars, env, connections,
                       handledLog, signals, dbHandler, shutdown, db, exited>>
    \/ ServeRequest
        /\ UNCHANGED <<formVars, libVars, env, pc, bootLog, server, connections, signals,
                       dbHandler, shutdown, db, exited>>
    \/ OpenConnection
        /\ UNCHANGED <<storeVars, routeVars, formVars, libVars, env, pc, bootLog, server,
                       handledLog, signals, dbHandler, shutdown, db, exited>>
    \/ CloseConnection
        /\ UNCHANGED <<storeVars, routeVars, formVars, libVars, env, pc, bootLog, server,
                       handledLog, signals, dbHandler, shutdown, db, exited>>
    \/ Signal
        /\ UNCHANGED <<storeVars, routeVars, formVars, libVars, env, pc, bootLog,
                       connections, handledLog, db, exited>>
    \/ CloseLastConnection
        /\ UNCHANGED <<storeVars, routeVars, formVars, libVars, env, pc, bootLog,
                       handledLog, signals, dbHandler, db, exited>>
    \/ ShutdownDisconnected
        /\ UNCHANGED <<storeVars, routeVars, formVars, libVars, env, pc, bootLog, server,
                       connections, handledLog, signals, dbHandler, shutdown>>
    \/ DbHandlerDisconnected
        /\ UNCHANGED <<storeVars, routeVars, formVars, libVars, env, pc, bootLog, server,
                       connections, handledLog, signals, dbHandler, shutdown>>
    \/ ForcedShutdown
        /\ UNCHANGED <<storeVars, routeVars, formVars, libVars, env, pc, bootLog, server,
                       connections, handledLog, signals, dbHandler, shutdown, db>>

SpecProcess == ProcessInit /\ [][ProcessNext]_vars

-----
(* Properties of the schema store, checked under SpecStore *)

\* C1: a loadSchema call that raised leaves the active document as it was
\* before the call (the same document, or still none).
C1_FailedLoadKeepsDocument ==
    loadOutcome.threw => loadedSchema = schemaBefore

\* C10: getLoadedSchema raises the not-loaded error while no loadSchema call
\* has succeeded, and otherwise returns the document of the most recent
\* successful load.
C10_GetReturnsLastSuccessfulLoad ==
    getOutcome # NoCall =>
        getOutcome = IF lastLoaded = JNull
                     THEN [threw |-> TRUE, error |-> "Schema not loaded. Call loadSchema() first."]
                     ELSE [threw |-> FALSE, value |-> lastLoaded]

\* C11: loadSchema accepts only a document whose steps array is not empty: a
\* load that resolved returned such a document, and the active document is
\* never one with steps: [].
C11_EmptyStepsDocumentRejected ==
    /\ (loadOutcome # NoCall /\ ~loadOutcome.threw) => Len(loadOutcome.value.steps.a) > 0
    /\ loadedSchema # JNull => Len(loadedSchema.steps.a) > 0

-----------------------------------------------------------------------------
(* Properties of validateSubmission, checked under SpecValidate *)

\* the report is that of a record (the argument was not null)
Reported == report # NoReport /\ request # JNull

\* a load has succeeded: the store holds a document the lookups can read
SchemaLoaded == lastLoaded # JNull

\* C2: the report of validateSubmission has success = true exactly when its
\* errors mapping is empty, the report of the catch block included.
C2_SuccessIffNoErrors ==
    report # NoReport => (report.success <=> DOMAIN report.errors = {})

C2_Witness_EmptyErrorsAndSuccess ==
    /\ Reported
    /\ report.success
    /\ DOMAIN report.errors = {}

\* C3: aadhaarNumber gets an error exactly when its value is not 12 digits and
\* panNumber exactly when its value is not 5 uppercase letters, 4 digits and 1
\* uppercase letter, whatever field and pattern the loaded schema has.
C3_IdentityNumbersAlwaysChecked ==
    (Reported /\ SchemaLoaded) =>
        /\ ApiKey.aadhaarNumber \in DOMAIN request.o =>
                (ApiKey.aadhaarNumber \in DOMAIN report.errors
                    <=> ~TestAadhaar(StringOf(request.o[ApiKey.aadhaarNumber])))
        /\ ApiKey.panNumber \in DOMAIN request.o =>
                (ApiKey.panNumber \in DOMAIN report.errors
                    <=> ~TestPan(StringOf(request.o[ApiKey.panNumber])))

\* C4: under any loaded schema, declaration: true gets no error, declaration:
\* false gets an error under the key, and that error is not the message of
\* the record without the key.
C4_DeclarationFalseIsAnError ==
    (Reported /\ SchemaLoaded /\ ApiKey.declaration \in DOMAIN request.o) =>
        /\ request.o[ApiKey.declaration] = JBool(TRUE) => ApiKey.declaration \notin DOMAIN report.errors
        /\ request.o[ApiKey.declaration] = JBool(FALSE) =>
                /\ ApiKey.declaration \in DOMAIN report.errors
                /\ report.errors[ApiKey.declaration] # Msg("${fieldName} is required", ApiKey.declaration)

\* the top-level keys a record must have
TopLevelRequired ==
    {ApiKey.enterpriseName, ApiKey.enterpriseType, ApiKey.socialCategory, ApiKey.gender,
     ApiKey.declaration, ApiKey.officialAddress, ApiKey.promoterDetails}

DottedPinCodeKey == ApiKey.officialAddress \o <<".">> \o ApiKey.pinCode

\* C6: an invalid pinCode inside officialAddress is reported under the key
\* officialAddress.pinCode and not under the key officialAddress.
C6_InnerErrorUnderDottedKey ==
    (/\ Reported /\ SchemaLoaded
     /\ ApiKey.officialAddress \in DOMAIN request.o
     /\ request.o[ApiKey.officialAddress].t = "object"
     /\ GetProp(request.o[ApiKey.officialAddress], ApiKey.pinCode) = JStr(Val.pinBad)) =>
        /\ DottedPinCodeKey \in DOMAIN report.errors
        /\ ApiKey.officialAddress \notin DOMAIN report.errors

\* whether the rule validateField applies to a key is a required one: the
\* rule of the schema's field, or the required list of the default table
RuleRequired(schema, fieldName) ==
    Once(LAMBDA hit : IF hit.found THEN GetFieldValidationRules(hit.field).required
                      ELSE fieldName \in BasicRequiredFields,
         GetFieldByName(schema, GetSchemaFieldName(fieldName)))

\* C7: a key that is present with an empty value (undefined, null, '') and
\* whose rule is not required gets no error, whether its rule comes from the
\* schema or from the default table.
C7_EmptyOptionalValueSkipped ==
    (Reported /\ SchemaLoaded) =>
        \A key \in DOMAIN request.o \ TopLevelRequired :
            (IsEmptyValue(request.o[key]) /\ ~RuleRequired(loadedSchema, key)) =>
                key \notin DOMAIN report.errors

-----------------------------------------------------------------------------
(* Properties of the submit path, checked under SpecSubmit *)

\* C9: every persisted row is of a record for which validateSubmission
\* returned success = true; a record that fails the full-record validation
\* is never handed to createSubmission.
C9_PersistedOnlyAfterValidation ==
    \A i \in 1..Len(submissions) :
        /\ submissions[i].source = request
        /\ ValidateSubmission(loadedSchema, submissions[i].source).success

C9_Witness_RowPersisted ==
    /\ Len(submissions) > 0
    /\ response.status = 201
    /\ report.success

-----------------------------------------------------------------------------
(* Properties of the form session, checked under SpecForm *)

\* C8: when the backend's validation rejects the record of submit(), the
\* session stays on the step it is on, is not reset, does not announce a
\* stored submission, and fieldErrors has an entry for every key of the
\* backend's errors mapping.
C8_RejectionShowsBackendFieldErrors ==
    settled.kind = "rejected" =>
        /\ currentStep = settled.stepBefore
        /\ formData = settled.formDataBefore
        /\ completedSteps = settled.completedBefore
        /\ toast # "Form Submitted Successfully!"
        /\ DOMAIN settled.errors \subseteq DOMAIN fieldErrors

\* C12: a step that is in the completed set stays in it through every
\* operation of the session (next, previous, a field change, submit and its
\* outcome); only a step that loads a new schema may reset the progress.
C12_CompletedStepsKeptUntilReload ==
    [][formSchema' = formSchema =>
            \A i \in 1..Len(completedSteps) :
                \E j \in 1..Len(completedSteps') : completedSteps'[j] = completedSteps[i]]_vars

\* C14: a submission (submitForm: the full-record validation followed by the
\* persistence) starts only from the last step: no step of the session opens
\* one while the ordinal is below the number of steps.
C14_SubmitStartsOnLastStepOnly ==
    [][(~pending.open /\ pending'.open) => currentStep = Len(formSchema.steps)]_vars

C14_Witness_SubmissionOpenOnLastStep ==
    /\ pending.open
    /\ Len(formSchema.steps) > 1
    /\ currentStep = Len(formSchema.steps)

-----------------------------------------------------------------------------
(* Properties of the navigation handlers, checked under SpecNavigate *)

\* C13: with N steps, next() called while the ordinal is N leaves it at N, and
\* previous() called while the ordinal is 1 leaves it at 1.
C13_NavigationClampedAtBothEnds ==
    /\ (settled.kind = "next" /\ settled.stepBefore = Len(formSchema.steps))
            => currentStep = Len(formSchema.steps)
    /\ (settled.kind = "previous" /\ settled.stepBefore = 1) => currentStep = 1

C13_Witness_NextOnLastStepValidated ==
    /\ settled.kind = "next"
    /\ settled.stepBefore = Len(formSchema.steps)
    /\ \E i \in 1..Len(completedSteps) : completedSteps[i] = Len(formSchema.steps)

-----------------------------------------------------------------------------
(* Properties of the name helpers, checked under SpecNames *)

\* C15: stripping the namespace prefix is idempotent: for every raw name,
\* names with the prefix twice or not at the start included, stripping the
\* stripped name gives the stripped name.
C15_StrippingIsIdempotent ==
    resolved.op = "clean" => resolved.twice = resolved.once

\* C16: for each control the form consumes, the name carried to its friendly
\* name, on to the API name of convertToBackendFormat and back through
\* FIELD_MAPPING is the name of the control again, and no two friendly names
\* have the same API name.
C16_NameMappingsAreLossless ==
    resolved.op = "roundTrip" =>
        /\ \A r \in {c \in DOMAIN friendlyNames : friendlyNames[c] \in DOMAIN fieldMapping} :
                rawName \in {r, Raw(r)} => resolved.raw = r
        /\ \A f, g \in DOMAIN fieldMapping : f # g => fieldMapping[f] # fieldMapping[g]

-----------------------------------------------------------------------------
(* Properties of sanitizeSubmissionData, checked under SpecSanitize *)

\* C17: the record sanitizeSubmissionData returns has, next to _submittedAt
\* and _version, only keys of FIELD_MAPPING that do not start with the
\* reserved marker, and each of its top-level strings is trimmed.
C17_OnlyMappedKeysAndTrimmedStrings ==
    sanitized.op # "none" =>
        /\ \A key \in DOMAIN sanitized.once \ {ApiKey._submittedAt, ApiKey._version} :
                /\ key \in DOMAIN FIELD_MAPPING
                /\ ~StartsWith(key, <<"_", "_">>)
        /\ \A key \in DOMAIN sanitized.once :
                sanitized.once[key].t = "string" =>
                    /\ sanitized.once[key].s = <<>> \/ sanitized.once[key].s[1] \notin WhiteChars
                    /\ sanitized.once[key].s = <<>>
                            \/ sanitized.once[key].s[Len(sanitized.once[key].s)] \notin WhiteChars

\* C18: sanitizing a sanitized record changes nothing but the timestamp: the
\* two records have the same keys and, under every key but _submittedAt, the
\* same value.
C18_SanitizeIdempotentUpToTimestamp ==
    sanitized.op = "twice" =>
        /\ DOMAIN sanitized.twice = DOMAIN sanitized.once
        /\ \A key \in DOMAIN sanitized.once \ {ApiKey._submittedAt} :
                sanitized.twice[key] = sanitized.once[key]

C18_Witness_PaddedRecordSanitizedTwice ==
    /\ sanitized.op = "twice"
    /\ sanitized.twice[ApiKey._submittedAt] # sanitized.once[ApiKey._submittedAt]
    /\ request.o[ApiKey.enterpriseName] = JStr(Padded(Val.JohnDoe))
    /\ sanitized.twice[ApiKey.enterpriseName] = JStr(Val.JohnDoe)
    /\ OtherKey.__proto__ \in DOMAIN request.o
    /\ OtherKey.__proto__ \notin DOMAIN sanitized.twice

-----------------------------------------------------------------------------
(* Properties of validations served between reloads, checked under SpecServe *)

-----------------------------------------------------------------------------
(* Further properties of the form session *)

\* the fields of a step that validateCurrentStep looks at
StepInputs(step) ==
    {i \in 1..Len(formSchema.steps[step].fields) :
        formSchema.steps[step].fields[i].type \notin {"submit", "button"}}

\* every field of the step is free of errors under the values typed so far,
\* and no pattern of the step makes the check raise
StepPasses(step) ==
    \A i \in StepInputs(step) :
        LET field == formSchema.steps[step].fields[i]
            value == ValueOf(formData, field.name)
        IN  /\ StepFieldError(field, value) = NoError
            /\ ~(Truthy(value) /\ field.pattern # "" /\ RegExpThrows(field.pattern))

\* C25: next() looks at the fields of the current step only. When one of
\* them fails, the ordinal and the completed steps stay as they were; when
\* all pass, the step is among the completed steps (once) and the ordinal
\* is one higher if it was below the number of steps, whatever the values of
\* the other steps' fields are.  Checked under SpecNavigate.
C25_NextChecksCurrentStepOnly ==
    (formSchema.t = "schema" /\ settled.kind = "next") =>
        IF StepPasses(settled.stepBefore)
        THEN /\ currentStep = IF settled.stepBefore < Len(formSchema.steps)
                              THEN settled.stepBefore + 1 ELSE settled.stepBefore
             /\ {completedSteps[i] : i \in 1..Len(completedSteps)}
                    = {settled.completedBefore[i] : i \in 1..Len(settled.completedBefore)}
                        \cup {settled.stepBefore}
             /\ \A i, j \in 1..Len(completedSteps) :
                    completedSteps[i] = completedSteps[j] => i = j
        ELSE /\ currentStep = settled.stepBefore
             /\ completedSteps = settled.completedBefore

C25_Witness_NextPassesWhileAnotherStepIsInvalid ==
    /\ formSchema.t = "schema" /\ settled.kind = "next"
    /\ StepPasses(settled.stepBefore)
    /\ currentStep = settled.stepBefore + 1
    /\ \E other \in 1..Len(formSchema.steps) :
            other # settled.stepBefore /\ ~StepPasses(other)

\* C27: in every state of a form session whose schema has N >= 1 steps,
\* whatever field changes, next(), previous() and submissions led to it, the
\* ordinal is in 1..N and the completed steps are distinct members of 1..N.
\* Checked under SpecForm.
C27_OrdinalAndCompletedStepsInRange ==
    (formSchema.t = "schema" /\ Len(formSchema.steps) >= 1) =>
        /\ currentStep \in 1..Len(formSchema.steps)
        /\ \A i \in 1..Len(completedSteps) : completedSteps[i] \in 1..Len(formSchema.steps)
        /\ \A i, j \in 1..Len(completedSteps) :
                completedSteps[i] = completedSteps[j] => i = j

C27_Witness_CompletedStepPassedAgain ==
    /\ formSchema.t = "schema"
    /\ settled.kind = "next"
    /\ \E i \in 1..Len(settled.completedBefore) : settled.completedBefore[i] = settled.stepBefore
    /\ currentStep = settled.stepBefore + 1
    /\ completedSteps = settled.completedBefore

\* the consent checkboxes of the form
ConsentKeys == {FormKey.aadhaarConsent, FormKey.panConsent}

\* C26: the record a form session sends has declaration = true only if the
\* user ticked a consent checkbox: when no consent field was ever set, or
\* one of them is false, the record sent does not carry declaration = true.
\* Checked under SpecForm.
C26_DeclarationOnlyFromTickedConsent ==
    (settled.kind \in {"stored", "rejected", "failed"}
        /\ request # JNull
        /\ ApiKey.declaration \in DOMAIN request.o
        /\ request.o[ApiKey.declaration] = JBool(TRUE)) =>
            /\ \E key \in ConsentKeys : ValueOf(settled.formDataSent, key) = JBool(TRUE)
            /\ \A key \in ConsentKeys : ValueOf(settled.formDataSent, key) # JBool(FALSE)

-----------------------------------------------------------------------------
(* Further properties of validateSubmission, checked under SpecValidate *)

C24_ReadmeExamplePasses ==
    (request = JObj(ReadmeRecord) /\ SchemaLoaded /\ response # NoResponse) =>
        /\ report.success
        /\ response.status = 200
        /\ response.validatedFields = Cardinality(DOMAIN ReadmeRecord)

\* C29, as stated: validateSubmission returns a report for every record in
\* every state of the store; when no schema is loaded the report has
\* success = false and every submitted key carries 'Validation failed for
\* <key>'.
C29_NoSchemaEveryKeyGeneric ==
    /\ report # NoReport => DOMAIN report = {"success", "errors"}
    /\ (Reported /\ loadedSchema = JNull) =>
            /\ ~report.success
            /\ \A key \in DOMAIN request.o :
                    /\ key \in DOMAIN report.errors
                    /\ report.errors[key] = Msg("Validation failed for ${fieldName}", key)

\* the top-level keys under which the required-presence checks of lines
\* 305-327 write for the record
PresenceKeys(data) ==
    {key \in {ApiKey.officialAddress, ApiKey.promoterDetails} : ~Truthy(DataProp(data, key))}
    \cup {ApiKey.officialAddress \o <<".">> \o f :
            f \in {g \in RequiredAddressFields :
                    ~Truthy(GetProp(DataProp(data, ApiKey.officialAddress), g))}}
    \cup {ApiKey.promoterDetails \o <<".">> \o f :
            f \in {g \in RequiredPromoterFields :
                    ~Truthy(GetProp(DataProp(data, ApiKey.promoterDetails), g))}}

\* C29, amended: validateSubmission returns a report for every record in
\* every state of the store; when no schema is loaded the report has
\* success = false and every submitted key has an entry in errors, which is
\* 'Validation failed for <key>' unless a required-presence check wrote
\* under the same key afterwards: a falsy officialAddress carries 'Official
\* address is required', a falsy promoterDetails 'Promoter details are
\* required'.
C29_NoSchemaEveryKeyHasAnError ==
    /\ report # NoReport => DOMAIN report = {"success", "errors"}
    /\ (Reported /\ loadedSchema = JNull) =>
            /\ ~report.success
            /\ \A key \in DOMAIN request.o :
                    /\ key \in DOMAIN report.errors
                    /\ key \notin PresenceKeys(request.o) =>
                            report.errors[key] = Msg("Validation failed for ${fieldName}", key)
                    /\ (key = ApiKey.officialAddress /\ key \in PresenceKeys(request.o)) =>
                            report.errors[key] = Msg("Official address is required", <<>>)
                    /\ (key = ApiKey.promoterDetails /\ key \in PresenceKeys(request.o)) =>
                            report.errors[key] = Msg("Promoter details are required", <<>>)

C29_Witness_NullAddressWithoutSchema ==
    /\ Reported /\ loadedSchema = JNull
    /\ ApiKey.officialAddress \in DOMAIN request.o
    /\ request.o[ApiKey.officialAddress] = JNull
    /\ report.errors[ApiKey.officialAddress] = Msg("Official address is required", <<>>)
    /\ report.errors[ApiKey.enterpriseName]
            = Msg("Validation failed for ${fieldName}", ApiKey.enterpriseName)

\* C30: every key the default rules treat as required when it is present
\* but empty (enterpriseName, enterpriseType, socialCategory, gender,
\* declaration, aadhaarNumber, panNumber) has an error in the report of a
\* record that lacks the key.  Stated for a store with a loaded schema.
C30_RequiredListsAgree ==
    (Reported /\ SchemaLoaded) =>
        \A key \in {ApiKey.enterpriseName, ApiKey.enterpriseType, ApiKey.socialCategory,
                    ApiKey.gender, ApiKey.declaration, ApiKey.aadhaarNumber,
                    ApiKey.panNumber} :
            key \notin DOMAIN request.o => key \in DOMAIN report.errors

-----------------------------------------------------------------------------
(* Properties of the server process, checked under SpecProcess *)

\* C22: the server accepts requests only after validateConfig,
\* testDatabaseConnection and loadSchema have succeeded, in that order; when
\* loadSchema fails the process exits without listening and loadSchema is
\* not called again; no request is answered while no schema is loaded.
C22_ListensOnlyAfterOrderedBoot ==
    /\ server # "none" =>
            /\ SubSeq(bootLog, 1, 3) = <<"validateConfig", "testDatabaseConnection", "loadSchema">>
            /\ env.configOk /\ env.dbOk
            /\ ~loadOutcome.threw
            /\ loadedSchema # JNull
    /\ (loadOutcome # NoCall /\ loadOutcome.threw) =>
            /\ server = "none"
            /\ exited = "1"
            /\ bootLog = <<"validateConfig", "testDatabaseConnection", "loadSchema">>
    /\ Cardinality({i \in 1..Len(bootLog) : bootLog[i] = "loadSchema"}) <= 1
    /\ \A i \in 1..Len(handledLog) : handledLog[i].schemaLoaded

C22_Witness_RequestAnsweredAfterBoot ==
    /\ Len(handledLog) > 0
    /\ server = "listening"
    /\ bootLog = <<"validateConfig", "testDatabaseConnection", "loadSchema", "listen">>

\* C28: after SIGTERM or SIGINT the process exits only once the HTTP server
\* has finished closing and the database is disconnected, or through the
\* forced-shutdown timer; it never exits with code 0 while the HTTP server is
\* still open.  Stated for a signal that finds both listeners registered.
C28_NoCleanExitWhileServerOpen ==
    (exited = "0" /\ shutdown # "idle") =>
        /\ server \notin {"listening", "closing"}
        /\ db = "disconnected"

====
